---------------------------- MODULE Spec2Model ----------------------------
(***************************************************************************)
(* A model of firm's ActivityPub dispatch engine                           *)
(* (firm/services/activitypub.py) over the memory resource store           *)
(* (firm/store/memory.py).                                                 *)
(*                                                                         *)
(* Resources are JSON documents.  A document is a record with one field    *)
(* per JSON key the engine reads or writes; an absent key (and Python's    *)
(* None) is the value NONE.  The two item lists of a collection,           *)
(* "orderedItems" and "items", are sequences; the empty sequence stands    *)
(* for an absent key and for an empty list alike, which the engine itself  *)
(* never tells apart (`if items := collection.get(items_key)`).  A "type"  *)
(* is a single string.  The "object" of an activity is a reference: absent,*)
(* a URI, or an embedded document with its own id, type, actor and object. *)
(*                                                                         *)
(* uuid.uuid4() is a counter: every call returns a value never seen before.*)
(* An exception that is no HttpException (KeyError, ValueError) leaves the *)
(* handler and is answered with status 500.                                *)
(*                                                                         *)
(* The authorization engine (firm/auth/authorization.py) is modelled       *)
(* beside it, under a specification of its own, AuthzSpec: the dispatch    *)
(* engine does not call it.  So are the chain of authorization services    *)
(* (firm/auth/chained.py, ChainSpec), the HTTP signature signer and        *)
(* authenticator (firm/auth/http_signature.py, SigSpec), the HTTP Basic    *)
(* authenticator (firm/auth/http_basic.py, BasicSpec), the memory and the  *)
(* SQL partition of the resource store given the same calls                *)
(* (firm/store/base.py, memory.py, sqlite.py, StoreSpec), and the          *)
(* prefix-routed store with its fetch fallback (firm/store/prefixstore.py, *)
(* PrefixSpec; with a wildcard tenant, WildcardSpec), and the bearer token *)
(* authenticator (firm/auth/bearer_token.py, BearerSpec).  DeliverySpec is *)
(* the dispatch engine again, with a delivery service that may raise and   *)
(* with the writes of each request recorded one by one; ConcurrentSpec has *)
(* two handlers of inbox Follows take turns at each call of the store.     *)
(* Each specification leaves the variables of the others at rest.          *)
(***************************************************************************)
EXTENDS Naturals, Sequences, FiniteSets, TLC

VARIABLES
    store,      \* MemoryResourceStore._objects: id -> document
    delivered,  \* the activities handed to DeliveryService.deliver, in order
    uuid,       \* the number of uuid4() values drawn so far
    before,     \* store, delivered and uuid as they were before the last request
    req,        \* the last request
    resp,       \* its response: status, Location header, box handler reached
    nreq,       \* requests processed so far
    authz,      \* a CoreAuthorizationService: its prefix, its store, next_auth
    call,       \* the last call of one of its three entry points
    decision,   \* the AuthorizationDecision that call returned
    authorizers,\* AuthorizationServiceChain.authorizers
    consulted,  \* the calls the chain made on its authorizers, in order
    httpRequest,\* the request an authenticator is given
    authStore,  \* request.app.state.store of that request
    identity,   \* what Authenticator.authenticate made of it
    signer,     \* an HttpSignatureAuth: key id, private key, header names
    signedRequest, \* the request as HttpSignatureAuth.sign left it
    changes,    \* the changes made to the request since it was signed
    memory,     \* a MemoryResourceStore: _objects and the uuid4() values drawn
    sql,        \* the rows of a SqliteResourceStore's partition: uri -> object
    prefixStore,\* a PrefixAwareResourceStore: tenant, remote and private stores
    requested,  \* the URIs the fetching store has asked its transport for
    storeCall,  \* the last call on the stores
    storeResult,\* what it returned, store by store
    storeBefore,\* the stores as they were before it
    ncalls,     \* calls made so far
    effects,    \* the writes and deliveries of the last request, in order
    handlers    \* the handlers at work at once: where each is, what it holds

chainVars == <<authorizers, consulted>>

authnVars == <<httpRequest, authStore, identity, signer, signedRequest, changes>>

storeVars ==
    <<memory, sql, prefixStore, requested, storeCall, storeResult, storeBefore, ncalls>>

stepVars == <<effects, handlers>>

vars == <<store, delivered, uuid, before, req, resp, nreq, authz, call, decision,
          chainVars, authnVars, storeVars, stepVars>>

\* The number of requests one behaviour processes.
MaxRequests == 3

NONE == "None"

-----------------------------------------------------------------------------
(* Documents *)

NoRef == [k |-> "none", id |-> NONE, type |-> NONE, actor |-> NONE, object |-> NONE]

UriRef(u) == [k |-> "uri", id |-> u, type |-> NONE, actor |-> NONE, object |-> NONE]

DocRef(id, type, actor, object) ==
    [k |-> "doc", id |-> id, type |-> type, actor |-> actor, object |-> object]

Doc(id, type) ==
    [id |-> id, type |-> type, context |-> NONE, actor |-> NONE, object |-> NoRef,
     to |-> NONE, attributedTo |-> NONE, inbox |-> NONE, outbox |-> NONE,
     followers |-> NONE, likes |-> NONE, orderedItems |-> <<>>, items |-> <<>>]

\* An embedded document (a Mapping held in "object") as a document of its own.
Embedded(ref) ==
    [Doc(ref.id, ref.type) EXCEPT
        !.actor = ref.actor,
        !.object = IF ref.object = NONE THEN NoRef ELSE UriRef(ref.object)]

\* isinstance(x, Mapping) for the value of "object".
IsMapping(ref) == ref.k = "doc"

\* A document held as the "object" of another one (the Accept's Follow).
Embed(doc) ==
    DocRef(doc.id, doc.type, doc.actor,
           IF doc.object.k = "none" THEN NONE ELSE doc.object.id)

\* util.has_value for a single-string value.
has_value(resource, key, value) == resource[key] # NONE /\ resource[key] = value

\* util.resource_id raises for None (ValueError) and for a Mapping without an
\* id (KeyError); resource_id_raises tells when, resource_id is the id otherwise.
resource_id_raises(ref) == ref.k = "none" \/ (ref.k = "doc" /\ ref.id = NONE)

resource_id(ref) == ref.id

\* util.resource_get(activity, "object", key): None unless object is a Mapping.
resource_get(activity, key) ==
    IF IsMapping(activity.object) THEN activity.object[key] ELSE NONE

\* str.lower() on the type names that occur.
lower(s) ==
    CASE s = "Create" -> "create"
      [] s = "Follow" -> "follow"
      [] s = "Like" -> "like"
      [] s = "Undo" -> "undo"
      [] s = "Announce" -> "announce"
      [] s = "Accept" -> "accept"
      [] s = "Document" -> "document"
      [] s = "Note" -> "note"
      [] s = "object" -> "object"

Uuid4(n) == "uuid" \o ToString(n)

\* The value the next uuid.uuid4() call returns, and the context after it.
NextUuid(c) == Uuid4(c.uuid + 1)

Drawn(c) == [c EXCEPT !.uuid = @ + 1]

-----------------------------------------------------------------------------
(* The processing context: the store, the delivery log and the uuid counter *)
(* as a handler threads them; err, the status of the exception that ended  *)
(* the handler (0 while none was raised); the Location header of the       *)
(* response; box, the box handler _process_post dispatched to; down,       *)
(* whether the delivery service raises when it is called; and effects, the *)
(* writes and deliveries made so far, in order.                            *)

Ctx(s, d, u) ==
    [store |-> s, delivered |-> d, uuid |-> u, err |-> 0, location |-> NONE, box |-> "none",
     down |-> FALSE, effects |-> <<>>]

\* One write or delivery: what was done, to which id, whether it came back
\* without an exception, and the store it left.
Effect(op, id, ok, s) == [op |-> op, id |-> id, ok |-> ok, store |-> s]

Raise(c, status) == [c EXCEPT !.err = status]

\* MemoryResourceStore.get / is_stored
is_stored(c, uri) == uri \in DOMAIN c.store

get(c, uri) == c.store[uri]

\* The document as MemoryResourceStore.put leaves it: an id is assigned if
\* the resource has none.
WithId(c, resource) ==
    IF resource.id = NONE
    THEN [resource EXCEPT !.id = "urn:uuid:" \o NextUuid(c)]
    ELSE resource

\* MemoryResourceStore.put
put(c, resource) ==
    LET r == WithId(c, resource)
        written == [x \in DOMAIN c.store \cup {r.id} |->
                       IF x = r.id THEN r ELSE c.store[x]]
    IN  [c EXCEPT
            !.store = written,
            !.uuid = IF resource.id = NONE THEN @ + 1 ELSE @,
            !.effects = Append(@, Effect("put", r.id, TRUE, written))]

-----------------------------------------------------------------------------
(* Collections *)

IsIn(x, seq) == \E i \in 1..Len(seq) : seq[i] = x

\* list.remove: the first occurrence goes.
RemoveFirst(seq, x) ==
    LET i == CHOOSE j \in 1..Len(seq) :
                 seq[j] = x /\ \A h \in 1..(j - 1) : seq[h] # x
    IN  SubSeq(seq, 1, i - 1) \o SubSeq(seq, i + 1, Len(seq))

items_key(collection) ==
    IF has_value(collection, "type", "OrderedCollection") THEN "orderedItems" ELSE "items"

\* An insertion that always appends.
put_collection_item_appended(c, collection_uri, item_uri, prepend, allow_dups) ==
    IF ~is_stored(c, collection_uri) THEN Raise(c, 500)
    ELSE
        LET collection == get(c, collection_uri)
            key == items_key(collection)
            items == collection[key]
        IN  IF ~allow_dups /\ IsIn(item_uri, items) THEN c
            ELSE put(c, [collection EXCEPT ![key] = Append(items, item_uri)])

\* An insertion that does not look for the item among the members.
put_collection_item_dups(c, collection_uri, item_uri, prepend, allow_dups) ==
    IF ~is_stored(c, collection_uri) THEN Raise(c, 500)
    ELSE
        LET collection == get(c, collection_uri)
            key == items_key(collection)
            items == collection[key]
        IN  IF prepend
            THEN put(c, [collection EXCEPT ![key] = <<item_uri>> \o items])
            ELSE put(c, [collection EXCEPT ![key] = Append(items, item_uri)])

\* ActivityPubTenant._put_collection_item
put_collection_item(c, collection_uri, item_uri, prepend, allow_dups) ==
    IF ~is_stored(c, collection_uri) THEN Raise(c, 500)
    ELSE
        LET collection == get(c, collection_uri)
            key == items_key(collection)
            items == collection[key]
        IN  IF items # <<>>
            THEN IF ~allow_dups /\ IsIn(item_uri, items) THEN c
                 ELSE IF prepend
                      THEN put(c, [collection EXCEPT ![key] = <<item_uri>> \o items])
                      ELSE put(c, [collection EXCEPT ![key] = Append(items, item_uri)])
            ELSE put(c, [collection EXCEPT ![key] = <<item_uri>>])

\* A removal that writes the collection back as it was.
remove_collection_item_kept(c, collection_uri, item_uri) ==
    IF ~is_stored(c, collection_uri) THEN Raise(c, 500)
    ELSE put(c, get(c, collection_uri))

\* ActivityPubTenant._remove_collection_item
remove_collection_item(c, collection_uri, item_uri) ==
    IF ~is_stored(c, collection_uri) THEN Raise(c, 500)
    ELSE
        LET collection == get(c, collection_uri)
            key == items_key(collection)
            items == collection[key]
        IN  IF items # <<>> /\ IsIn(item_uri, items)
            THEN put(c, [collection EXCEPT ![key] = RemoveFirst(items, item_uri)])
            ELSE put(c, collection)

-----------------------------------------------------------------------------
(* Outbox *)

\* DeliveryService.deliver: the activity is handed over, or the service
\* raises and the exception leaves the handler.
deliver(c, activity) ==
    IF c.down
    THEN [c EXCEPT !.err = 500,
                   !.effects = Append(@, Effect("deliver", activity.id, FALSE, c.store))]
    ELSE [c EXCEPT !.delivered = Append(@, activity),
                   !.effects = Append(@, Effect("deliver", activity.id, TRUE, c.store))]

\* The last two statements of _process_outbox_internal.
outbox_publish(c, outbox_uri, activity) ==
    LET c1 == put_collection_item(c, outbox_uri, activity.id, TRUE, FALSE)
    IN  IF c1.err # 0 THEN c1 ELSE deliver(c1, activity)

\* ActivityPubTenant._process_outbox_internal
process_outbox_internal(c, outbox_uri, activity) ==
    IF has_value(activity, "type", "Create")
    THEN IF activity.object.k = "none" THEN Raise(c, 500)
         ELSE IF IsMapping(activity.object)
         THEN IF resource_id_raises(activity.object) \/ activity.actor = NONE
              THEN Raise(c, 500)
              ELSE LET activity_object == activity.object
                       activity1 == [activity EXCEPT
                                        !.object = UriRef(resource_id(activity_object))]
                       activity_type ==
                           lower(IF activity_object.type = NONE THEN "object"
                                 ELSE activity_object.type)
                       object_uri ==
                           activity.actor \o "/" \o activity_type \o "/" \o NextUuid(c)
                       stored_object ==
                           [Embedded(activity_object) EXCEPT
                               !.id = object_uri, !.attributedTo = activity.actor]
                   IN  outbox_publish(put(Drawn(c), stored_object), outbox_uri, activity1)
         ELSE outbox_publish(c, outbox_uri, activity)
    ELSE outbox_publish(put(c, activity), outbox_uri, activity)

\* ActivityPubTenant._generate_id
generate_id(c, subpath, actor) == actor.id \o "/" \o subpath \o "/" \o NextUuid(c)

\* The activity as _process_outbox normalizes it.
normalized(c, request, box_owner) ==
    [request.activity EXCEPT
        !.id = box_owner.id \o "/" \o lower(request.activity.type) \o "-" \o NextUuid(c),
        !.actor = IF @ = NONE THEN box_owner.id ELSE @,
        !.context = IF @ = NONE THEN "https://www.w3.org/ns/activitystreams" ELSE @]

\* ActivityPubTenant._process_outbox
process_outbox(c, request, box_owner) ==
    IF request.activity.type = NONE THEN Raise(c, 500)
    ELSE LET activity == normalized(c, request, box_owner)
             c1 == process_outbox_internal(Drawn(c), box_owner.outbox, activity)
         IN  IF c1.err # 0 THEN c1 ELSE [c1 EXCEPT !.location = activity.id]

-----------------------------------------------------------------------------
(* Inbox *)

\* An actor check that only asks for some principal.
not_authorized_actor_any_principal(request, actor_uri) == request.auth = NONE

\* ActivityPubTenant._assert_authorized_actor: TRUE when it raises.
not_authorized_actor(request, actor_uri) ==
    request.auth = NONE \/ actor_uri # request.auth

\* The Follow handler without its auto-Accept.
process_inbox_follow_no_accept(c, request, box_owner, activity) ==
    IF activity.actor = NONE THEN Raise(c, 500)
    ELSE IF not_authorized_actor(request, activity.actor) THEN Raise(c, 403)
    ELSE IF resource_id_raises(activity.object) THEN Raise(c, 500)
    ELSE IF resource_id(activity.object) # box_owner.id THEN Raise(c, 400)
    ELSE IF activity.actor = box_owner.id THEN Raise(c, 400)
    ELSE IF box_owner.followers = NONE THEN Raise(c, 501)
    ELSE put_collection_item(c, box_owner.followers, activity.actor, TRUE, FALSE)

\* ActivityPubTenant._process_inbox_follow
process_inbox_follow(c, request, box_owner, activity) ==
    IF activity.actor = NONE THEN Raise(c, 500)
    ELSE IF not_authorized_actor(request, activity.actor) THEN Raise(c, 403)
    ELSE IF resource_id_raises(activity.object) THEN Raise(c, 500)
    ELSE IF resource_id(activity.object) # box_owner.id THEN Raise(c, 400)
    ELSE IF activity.actor = box_owner.id THEN Raise(c, 400)
    ELSE IF box_owner.followers = NONE THEN Raise(c, 501)
    ELSE
        LET c1 == put_collection_item(c, box_owner.followers, activity.actor, TRUE, FALSE)
            accept ==
                [Doc(generate_id(c1, "accept", box_owner), "Accept") EXCEPT
                    !.context = "https://www.w3.org/ns/activitystreams",
                    !.to = activity.actor,
                    !.actor = box_owner.id,
                    !.object = Embed(activity)]
        IN  IF c1.err # 0 THEN c1
            ELSE IF box_owner.outbox = NONE THEN Raise(c1, 500)
            ELSE process_outbox_internal(Drawn(c1), box_owner.outbox, accept)

\* The Like handler without the insertion into the likes collection.
process_inbox_like_not_recorded(c, request, box_owner, activity) ==
    IF not_authorized_actor(request, activity.actor) THEN Raise(c, 403)
    ELSE IF resource_id_raises(activity.object) THEN Raise(c, 500)
    ELSE IF ~is_stored(c, resource_id(activity.object)) THEN Raise(c, 400)
    ELSE c

\* ActivityPubTenant._process_inbox_like
process_inbox_like(c, request, box_owner, activity) ==
    IF not_authorized_actor(request, activity.actor) THEN Raise(c, 403)
    ELSE IF resource_id_raises(activity.object) THEN Raise(c, 500)
    ELSE IF ~is_stored(c, resource_id(activity.object)) THEN Raise(c, 400)
    ELSE LET liked_object == get(c, resource_id(activity.object))
         IN  IF liked_object.likes = NONE THEN Raise(c, 500)
             ELSE put_collection_item(c, liked_object.likes, activity.actor, TRUE, FALSE)

\* The Create handler that leaves the embedded object where it is.
process_inbox_create_embedded_kept(c, request, activity) ==
    IF activity.object.k = "none" THEN Raise(c, 500) ELSE c

\* ActivityPubTenant._process_inbox_create
process_inbox_create(c, request, activity) ==
    IF activity.object.k = "none" THEN Raise(c, 500)
    ELSE IF IsMapping(activity.object)
    THEN IF resource_id_raises(activity.object) THEN Raise(c, 500)
         ELSE LET activity_object == activity.object
                  activity1 == [activity EXCEPT
                                   !.object = UriRef(resource_id(activity_object))]
              IN  put(put(c, Embedded(activity_object)), activity1)
    ELSE c

\* ActivityPubTenant._process_inbox_undo_follow
process_inbox_undo_follow(c, request, activity) ==
    LET box_owner_uri == resource_get(activity, "object")
    IN  IF box_owner_uri = NONE THEN Raise(c, 500)
        ELSE IF ~is_stored(c, box_owner_uri) THEN Raise(c, 400)
        ELSE LET box_owner == get(c, box_owner_uri)
             IN  IF box_owner.followers = NONE \/ activity.actor = NONE
                 THEN Raise(c, 500)
                 ELSE remove_collection_item(c, box_owner.followers, activity.actor)

\* ActivityPubTenant._process_inbox_undo_like
process_inbox_undo_like(c, request, activity) ==
    LET liked_object_uri == resource_get(activity, "object")
    IN  IF liked_object_uri = NONE THEN Raise(c, 500)
        ELSE IF ~is_stored(c, liked_object_uri) THEN Raise(c, 400)
        ELSE LET liked_object == get(c, liked_object_uri)
             IN  IF liked_object.likes = NONE \/ activity.actor = NONE
                 THEN Raise(c, 500)
                 ELSE remove_collection_item(c, liked_object.likes, activity.actor)

\* An Undo dispatch that lets an Undo of nothing it knows pass.
process_inbox_undo_permissive(c, request, activity) ==
    IF resource_get(activity, "type") = "Follow"
    THEN process_inbox_undo_follow(c, request, activity)
    ELSE IF resource_get(activity, "type") = "Like"
    THEN process_inbox_undo_like(c, request, activity)
    ELSE c

\* ActivityPubTenant._process_inbox_undo
process_inbox_undo(c, request, activity) ==
    IF resource_get(activity, "type") = "Follow"
    THEN process_inbox_undo_follow(c, request, activity)
    ELSE IF resource_get(activity, "type") = "Like"
    THEN process_inbox_undo_like(c, request, activity)
    ELSE Raise(c, 501)

\* ActivityPubTenant._process_inbox
process_inbox(c, request, box_owner) ==
    LET activity == WithId(c, request.activity)
        c1 == put(c, request.activity)
        c2 == put_collection_item(c1, box_owner.inbox, activity.id, TRUE, FALSE)
    IN  IF c2.err # 0 THEN c2
        ELSE IF has_value(activity, "type", "Follow")
        THEN process_inbox_follow(c2, request, box_owner, activity)
        ELSE IF has_value(activity, "type", "Like")
        THEN process_inbox_like(c2, request, box_owner, activity)
        ELSE IF has_value(activity, "type", "Create")
        THEN process_inbox_create(c2, request, activity)
        ELSE IF has_value(activity, "type", "Undo")
        THEN process_inbox_undo(c2, request, activity)
        ELSE Raise(c2, 501)

-----------------------------------------------------------------------------
(* Requests *)

\* str(request.url)
Str(url) == url.prefix \o url.path

\* ActivityPubTenant._process_get
process_get(c, request) ==
    IF is_stored(c, Str(request.url)) THEN c ELSE Raise(c, 404)

\* The POST dispatch without the check for a principal.
process_post_anonymous(c, request) ==
    IF ~is_stored(c, Str(request.url)) THEN Raise(c, 400)
    ELSE
        LET target == get(c, Str(request.url))
        IN  IF ~has_value(target, "type", "OrderedCollection") THEN Raise(c, 400)
            ELSE IF target.attributedTo = NONE THEN Raise(c, 400)
            ELSE IF ~is_stored(c, target.attributedTo) THEN Raise(c, 400)
            ELSE
                LET box_owner == get(c, target.attributedTo)
                IN  IF Str(request.url) = box_owner.inbox
                    THEN process_inbox([c EXCEPT !.box = "inbox"], request, box_owner)
                    ELSE IF Str(request.url) = box_owner.outbox
                    THEN process_outbox([c EXCEPT !.box = "outbox"], request, box_owner)
                    ELSE Raise(c, 400)

\* ActivityPubTenant._process_post
process_post(c, request) ==
    IF request.auth = NONE THEN Raise(c, 403)
    ELSE IF ~is_stored(c, Str(request.url)) THEN Raise(c, 400)
    ELSE
        LET target == get(c, Str(request.url))
        IN  IF ~has_value(target, "type", "OrderedCollection") THEN Raise(c, 400)
            ELSE IF target.attributedTo = NONE THEN Raise(c, 400)
            ELSE IF ~is_stored(c, target.attributedTo) THEN Raise(c, 400)
            ELSE
                LET box_owner == get(c, target.attributedTo)
                IN  IF Str(request.url) = box_owner.inbox
                    THEN process_inbox([c EXCEPT !.box = "inbox"], request, box_owner)
                    ELSE IF Str(request.url) = box_owner.outbox
                    THEN process_outbox([c EXCEPT !.box = "outbox"], request, box_owner)
                    ELSE Raise(c, 400)

\* ActivityPubTenant.process_request
tenant_process_request(c, request) ==
    IF request.method = "GET" THEN process_get(c, request)
    ELSE IF request.method = "POST" THEN process_post(c, request)
    ELSE Raise(c, 405)

\* ActivityPubService.tenants
Tenants == {"http://t1.test"}

\* ActivityPubService.process_request
process_request(c, request) ==
    IF request.url.prefix \in Tenants THEN tenant_process_request(c, request)
    ELSE Raise(c, 400)

-----------------------------------------------------------------------------
(* The resources provisioned before the first request, and the requests    *)

U1 == "http://remote.test/u1"
U3 == "http://remote.test/u3"
U2 == "http://t1.test/u2"
T1 == "http://t1.test"

Url(path) == [prefix |-> T1, path |-> path]

InboxUri == "http://t1.test/u2/inbox"
OutboxUri == "http://t1.test/u2/outbox"
FollowersUri == "http://t1.test/u2/followers"
NoteUri == "http://t1.test/u2/note"
NoteLikesUri == "http://t1.test/u2/note/likes"

Owned(id, type) == [Doc(id, type) EXCEPT !.attributedTo = U2]

Provisioned ==
    { [Doc(U2, "Person") EXCEPT
          !.inbox = InboxUri, !.outbox = OutboxUri, !.followers = FollowersUri],
      Owned(InboxUri, "OrderedCollection"),
      Owned(OutboxUri, "OrderedCollection"),
      Owned(FollowersUri, "Collection"),
      [Owned(NoteUri, "Note") EXCEPT !.likes = NoteLikesUri],
      Owned(NoteLikesUri, "Collection"),
      \* boxes no POST may reach
      Owned("http://t1.test/u2/liked", "OrderedCollection"),
      Doc("http://t1.test/orphan", "OrderedCollection"),
      [Doc("http://t1.test/ghost", "OrderedCollection") EXCEPT
          !.attributedTo = "http://t1.test/nobody"] }

InitialStore ==
    [id \in {d.id : d \in Provisioned} |-> CHOOSE d \in Provisioned : d.id = id]

Activity(id, type, actor, object) ==
    [Doc(id, type) EXCEPT !.actor = actor, !.object = object]

NoActivity == Doc(NONE, NONE)

\* What remote actors post to the inbox.  An activity keeps its id when it
\* is posted again; an Undo carries none and gets one from the store.  As
\* the data model has it, a resource's id names that resource alone: no
\* posted activity or embedded object carries the id of a provisioned
\* resource or of another posted document.
InboxActivities ==
    { Activity("http://remote.test/follow1", "Follow", U1, UriRef(U2)),
      Activity("http://remote.test/follow3", "Follow", U3, UriRef(U2)),
      Activity("http://remote.test/follow1x", "Follow", U1, UriRef(NoteUri)),
      Activity("http://remote.test/follow1n", "Follow", U1, NoRef),
      Activity("http://t1.test/u2/follow2", "Follow", U2, UriRef(U2)),
      Activity("http://remote.test/like1", "Like", U1, UriRef(NoteUri)),
      Activity("http://remote.test/like3", "Like", U3, UriRef(NoteUri)),
      Activity("http://remote.test/like1x", "Like", U1, UriRef("http://t1.test/u2/gone")),
      Activity("http://remote.test/create1", "Create", U1,
               DocRef("http://remote.test/document1", "Document", NONE, NONE)),
      Activity("http://remote.test/create1n", "Create", U1,
               DocRef(NONE, "Document", NONE, NONE)),
      Activity("http://remote.test/create1u", "Create", U1,
               UriRef("http://remote.test/document1")),
      Activity(NONE, "Undo", U1, DocRef(NONE, "Follow", NONE, U2)),
      Activity(NONE, "Undo", U1, DocRef(NONE, "Like", NONE, NoteUri)),
      Activity(NONE, "Undo", U1, NoRef),
      Activity(NONE, "Undo", U1, DocRef(NONE, NONE, NONE, U2)),
      Activity(NONE, "Undo", U1, UriRef("http://remote.test/follow1")),
      Activity("http://remote.test/announce1", "Announce", U1, UriRef(NoteUri)) }

\* What the owner's client posts to the outbox.
OutboxActivities ==
    { Activity(NONE, "Create", NONE,
               DocRef("http://client.test/draft", "Note", NONE, NONE)),
      Activity(NONE, "Create", NONE, DocRef(NONE, "Note", NONE, NONE)),
      Activity(NONE, "Create", U2, UriRef(NoteUri)),
      Activity(NONE, "Announce", NONE, UriRef(NoteUri)),
      Activity("http://client.test/like", "Like", U2, UriRef(NoteUri)) }

\* The requests.  Every inbox activity is posted by its own actor; the
\* Follow, Like and Undo activities of U1 are also posted by U3, a principal
\* who is not their actor (an Undo only when it embeds a typed activity).
\* The owner's client posts to the outbox.  The
\* other requests are answered without a box handler: a POST without a
\* principal, a POST to a URL that is no box, a GET, a method the tenant
\* does not serve, a URL of no tenant.
InboxRequests ==
    {[method |-> "POST", url |-> Url("/u2/inbox"), auth |-> a.actor, activity |-> a] :
        a \in InboxActivities}
    \cup
    {[method |-> "POST", url |-> Url("/u2/inbox"), auth |-> U3, activity |-> a] :
        a \in {x \in InboxActivities :
                  x.actor = U1 /\ x.type \in {"Follow", "Like", "Undo"}
                  /\ x.object # NoRef /\ (x.type = "Undo" => x.object.type # NONE)}}

OutboxRequests ==
    {[method |-> "POST", url |-> Url("/u2/outbox"), auth |-> U2, activity |-> a] :
        a \in OutboxActivities}

OtherRequests ==
    {[method |-> "POST", url |-> Url(path), auth |-> NONE, activity |-> NoActivity] :
        path \in {"/u2/inbox", "/u2/outbox", "/missing"}}
    \cup
    {[method |-> "POST", url |-> Url(path), auth |-> U1, activity |-> NoActivity] :
        path \in {"/u2/followers", "/u2/liked", "/orphan", "/ghost", "/missing"}}
    \cup
    {[method |-> "GET", url |-> Url(path), auth |-> NONE, activity |-> NoActivity] :
        path \in {"/u2/note", "/missing"}}
    \cup
    {[method |-> "PUT", url |-> Url("/u2/note"), auth |-> U1, activity |-> NoActivity],
     [method |-> "POST", url |-> [prefix |-> "http://t9.test", path |-> "/u2/inbox"],
      auth |-> U1, activity |-> NoActivity]}

Requests == InboxRequests \cup OutboxRequests \cup OtherRequests

-----------------------------------------------------------------------------
(* The authorization engine (firm/auth/authorization.py).                  *)
(*                                                                         *)
(* It reads documents whose keys hold a URI or a list of URIs (the type,   *)
(* the addressing fields, actor, attributedTo, the block lists).  Such a   *)
(* value is a record: absent, a single string, or a list.  As the data     *)
(* model has it, relationships are by URI reference: actor and             *)
(* attributedTo hold no embedded document, and the block lists are lists.  *)

Absent == [k |-> "none", v |-> <<>>]

Single(u) == [k |-> "str", v |-> <<u>>]

List(seq) == [k |-> "list", v |-> seq]

\* bool(value) for such a value
truthy(value) == value.k # "none" /\ value.v # <<>> /\ (value.k = "str" => value.v[1] # "")

Resource(id, type) ==
    [id |-> id, type |-> type,
     to |-> Absent, cc |-> Absent, bto |-> Absent, bcc |-> Absent, audience |-> Absent,
     actor |-> Absent, attributedTo |-> Absent, object |-> NoRef, target |-> NoRef,
     inbox |-> Absent, outbox |-> Absent, followers |-> Absent, following |-> Absent,
     liked |-> Absent, shares |-> Absent,
     blockedDomain |-> Absent, blockedActor |-> Absent]

AP_PUBLIC_URIS == <<"https://www.w3.org/ns/activitystreams#Public", "as:Public", "Public">>

AS2_ACTOR_TYPES == {"Application", "Group", "Organization", "Person", "Service"}

RECIPIENT_FIELDS == {"to", "bto", "cc", "bcc", "audience"}

\* util.has_value for a key that holds a string or a list
has_value_in(resource, key, value) ==
    \/ resource[key].k = "str" /\ resource[key].v[1] = value
    \/ resource[key].k = "list" /\ IsIn(value, resource[key].v)

\* util.get_types
get_types(resource) == {resource.type.v[i] : i \in 1..Len(resource.type.v)}

is_type(resource, resource_type) == has_value_in(resource, "type", resource_type)

is_type_any(resource, resource_types) == \E t \in resource_types : is_type(resource, t)

is_actor_object(resource) == \E t \in get_types(resource) : t \in AS2_ACTOR_TYPES

is_actor_collection(actor, resource_uri) ==
    \E key \in {"followers", "following", "liked", "shares"} :
        actor[key].k = "str" /\ actor[key].v[1] = resource_uri

\* A recipient test that reads "to" alone.
is_recipient_to_only(resource, uri) ==
    /\ truthy(resource["to"])
    /\ uri \in {resource["to"].v[i] : i \in 1..Len(resource["to"].v)}

is_recipient(resource, uri) ==
    \E key \in RECIPIENT_FIELDS :
        /\ truthy(resource[key])
        /\ \/ resource[key].k = "str" /\ resource[key].v[1] = uri
           \/ resource[key].k = "list" /\ IsIn(uri, resource[key].v)

\* util.get_id: the string itself, None for a list or an absent key.
get_id(value) == IF value.k = "str" THEN value.v[1] ELSE NONE

\* urlparse(uri).hostname of the principals' URIs: the host in lower case,
\* without the port.
hostname(uri) ==
    CASE uri = "https://server.test/user/1" -> "server.test"
      [] uri = "https://Remote.Test:8443/user/2" -> "remote.test"

\* ResourceStoreBase.is_match; criteria is a function from keys to values.
is_match(obj, criteria) ==
    \A ck \in DOMAIN criteria :
        \/ ck \in {"@context", "@id", "@type"}
        \/ LET v == obj[ck]
               cv == criteria[ck]
           IN  IF v.k = "list" THEN IsIn(cv, v.v)
               ELSE v.k = "str" /\ v.v[1] = cv

\* MemoryResourceStore.query: the ids of the matching documents
query(s, criteria) == {id \in DOMAIN s : is_match(s[id], criteria)}

\* ResourceStoreBase.query_one: no match, the match, or ValueError
query_one(s, criteria) ==
    LET matches == query(s, criteria)
    IN  IF matches = {} THEN [k |-> "none", doc |-> Resource(NONE, Absent)]
        ELSE IF Cardinality(matches) = 1
        THEN [k |-> "one", doc |-> s[CHOOSE id \in matches : TRUE]]
        ELSE [k |-> "raise", doc |-> Resource(NONE, Absent)]

\* interfaces.AuthorizationDecision, status_code 403 unless given; raised
\* names the exception that left the call instead of a decision, and calls
\* counts the evaluations of is_activity_authorized behind the decision.
Decision(authorized, reason, status_code) ==
    [authorized |-> authorized, reason |-> reason, status_code |-> status_code,
     raised |-> NONE, calls |-> 1]

FORBIDDEN == 403

Raised(exception) ==
    [authorized |-> FALSE, reason |-> NONE, status_code |-> 0,
     raised |-> exception, calls |-> 1]

\* interfaces.Principal; no principal is Anonymous.
Principal(actor) == [uri |-> actor.id, actor |-> actor]

Anonymous == [uri |-> NONE, actor |-> Resource(NONE, Absent)]

\* bool(principal), bool(request_actor_uri)
authenticated(principal) == principal.uri # NONE /\ principal.uri # ""

is_attributed_user(principal, resource) ==
    has_value_in(resource, "attributedTo", principal.uri)

is_activity_actor(principal, resource) ==
    IF truthy(resource.actor)
    THEN IF resource.actor.k = "str" THEN resource.actor.v[1] = principal.uri
         ELSE IsIn(principal.uri, resource.actor.v)
    ELSE LET attribution == get_id(resource.attributedTo)
         IN  attribution # NONE /\ attribution # "" /\ attribution = principal.uri

\* A test of public addressing that looks at "to" alone.
is_public_to_only(resource) ==
    /\ resource["to"].k # "none"
    /\ \E i \in 1..Len(AP_PUBLIC_URIS) : has_value_in(resource, "to", AP_PUBLIC_URIS[i])

is_public(resource) ==
    \E key \in {"to", "cc", "bto", "bcc", "audience"} :
        /\ resource[key].k # "none"
        /\ \E i \in 1..Len(AP_PUBLIC_URIS) : has_value_in(resource, key, AP_PUBLIC_URIS[i])

is_outbox(s, resource) == query_one(s, [outbox |-> resource.id])

is_inbox(s, resource) == query_one(s, [inbox |-> resource.id])

\* get_box_owner: the owner of the inbox, or else of the outbox
get_box_owner(s, resource) ==
    LET by_inbox == query_one(s, [inbox |-> resource.id])
    IN  IF by_inbox.k = "none" THEN query_one(s, [outbox |-> resource.id]) ELSE by_inbox

\* CoreAuthorizationService.__init__ and its next_auth attribute; next_auth
\* is an authorizer that answers every call with one decision.
Service(prefix, s, next_auth) == [prefix |-> prefix, store |-> s, next_auth |-> next_auth]

NoNextAuth == [configured |-> FALSE, decision |-> Decision(FALSE, NONE, FORBIDDEN)]

NextAuth(d) == [configured |-> TRUE, decision |-> d]

\* CoreAuthorizationService._is_blocked; the block lists are lists.
is_blocked(az, principal, request_actor_uri) ==
    LET blocks == query_one(az.store, [type |-> "firm:Blocks", attributedTo |-> principal])
    IN  IF blocks.k = "raise" THEN Raised("ValueError")
        ELSE IF blocks.k = "one" /\ truthy(blocks.doc.blockedDomain)
                /\ IsIn(hostname(request_actor_uri), blocks.doc.blockedDomain.v)
        THEN Decision(FALSE, "inbox post is blocked for domain", FORBIDDEN)
        ELSE IF blocks.k = "one" /\ truthy(blocks.doc.blockedActor)
                /\ IsIn(request_actor_uri, blocks.doc.blockedActor.v)
        THEN Decision(FALSE, "inbox post is blocked for actor", FORBIDDEN)
        ELSE Decision(TRUE, "Not blocked", FORBIDDEN)

\* The rules of is_get_authorized after the block list.
get_rules(az, principal, resource) ==
    IF is_public(resource) THEN Decision(TRUE, "public object", FORBIDDEN)
    ELSE IF is_actor_object(resource) THEN Decision(TRUE, "allow actor access", FORBIDDEN)
    ELSE IF is_outbox(az.store, resource).k = "raise" THEN Raised("ValueError")
    ELSE IF is_outbox(az.store, resource).k = "one"
    THEN Decision(TRUE, "public outbox read is allowed", FORBIDDEN)
    ELSE IF is_inbox(az.store, resource).k = "raise" THEN Raised("ValueError")
    ELSE IF is_inbox(az.store, resource).k = "one"
    THEN LET box_owner == get_box_owner(az.store, resource)
         IN  IF box_owner.k = "one" /\ box_owner.doc.id = principal.uri
             THEN Decision(TRUE, "in/outbox access allowed for owner", FORBIDDEN)
             ELSE IF principal.uri = NONE
             THEN Decision(FALSE, "anonymous inbox read not allowed", FORBIDDEN)
             ELSE Decision(FALSE, "inbox read allowed only for owner", FORBIDDEN)
    ELSE IF authenticated(principal) /\ is_recipient(resource, principal.uri)
    THEN Decision(TRUE, "object recipient access is allowed", FORBIDDEN)
    ELSE IF principal.uri = NONE THEN Decision(FALSE, "authentication required", 401)
    ELSE IF is_attributed_user(principal, resource)
    THEN Decision(TRUE, "object attributed to user", FORBIDDEN)
    ELSE IF is_activity_actor(principal, resource)
    THEN Decision(TRUE, "activity actor is user", FORBIDDEN)
    ELSE Decision(FALSE, "no authorization", FORBIDDEN)

\* A GET authorization that consults the block list after public addressing.
is_get_authorized_public_first(az, principal, resource) ==
    IF resource.id = NONE THEN Raised("KeyError")
    ELSE IF is_public(resource) THEN Decision(TRUE, "public object", FORBIDDEN)
    ELSE IF authenticated(principal)
    THEN LET blocked == is_blocked(az, az.prefix, principal.uri)
         IN  IF blocked.raised # NONE \/ ~blocked.authorized THEN blocked
             ELSE get_rules(az, principal, resource)
    ELSE get_rules(az, principal, resource)

\* CoreAuthorizationService.is_get_authorized
is_get_authorized(az, principal, resource) ==
    IF resource.id = NONE THEN Raised("KeyError")
    ELSE IF authenticated(principal)
    THEN LET blocked == is_blocked(az, az.prefix, principal.uri)
         IN  IF blocked.raised # NONE \/ ~blocked.authorized THEN blocked
             ELSE get_rules(az, principal, resource)
    ELSE get_rules(az, principal, resource)

\* A POST authorization that lets every authenticated principal post to
\* every outbox.
is_post_authorized_any_outbox(az, principal, box_type, box_uri) ==
    IF authenticated(principal) /\ box_type = "inbox"
    THEN LET block_decision == is_blocked(az, az.prefix, principal.uri)
         IN  IF block_decision.raised # NONE \/ ~block_decision.authorized
             THEN block_decision
             ELSE Decision(TRUE, "authenticated users can post to inbox", FORBIDDEN)
    ELSE IF authenticated(principal) /\ box_type = "outbox"
    THEN Decision(TRUE, "outbox owner can post to it", FORBIDDEN)
    ELSE Decision(FALSE, "authentication required", 401)

\* CoreAuthorizationService.is_post_authorized
is_post_authorized(az, principal, box_type, box_uri) ==
    IF authenticated(principal) /\ box_type = "inbox"
    THEN LET block_decision == is_blocked(az, az.prefix, principal.uri)
         IN  IF block_decision.raised # NONE \/ ~block_decision.authorized
             THEN block_decision
             ELSE Decision(TRUE, "authenticated users can post to inbox", FORBIDDEN)
    ELSE IF authenticated(principal) /\ box_type = "outbox"
    THEN IF principal.actor.outbox.k = "none" THEN Raised("KeyError")
         ELSE IF principal.actor.outbox.k = "str" /\ principal.actor.outbox.v[1] = box_uri
         THEN Decision(TRUE, "outbox owner can post to it", FORBIDDEN)
         ELSE Decision(FALSE, "only outbox owner can post to it", FORBIDDEN)
    ELSE Decision(FALSE, "authentication required", 401)

\* An Add and Remove rule that lets anybody change a stored target.
add_remove_rule_any_target(az, principal, activity) ==
    IF activity.object.k = "none" THEN Decision(FALSE, "Missing activity object", 400)
    ELSE IF activity.target.k = "none" THEN Decision(FALSE, "Missing activity target", 400)
    ELSE IF resource_id_raises(activity.target) THEN Raised("KeyError")
    ELSE IF authenticated(principal) /\ resource_id(activity.target) \in DOMAIN az.store
    THEN Decision(TRUE, "Public/owned collection changes allowed", FORBIDDEN)
    ELSE Decision(FALSE, "not authorized", FORBIDDEN)

\* The Add and Remove rule of is_activity_authorized.
add_remove_rule(az, principal, activity) ==
    IF activity.object.k = "none" THEN Decision(FALSE, "Missing activity object", 400)
    ELSE IF activity.target.k = "none" THEN Decision(FALSE, "Missing activity target", 400)
    ELSE IF resource_id_raises(activity.target) THEN Raised("KeyError")
    ELSE IF /\ authenticated(principal)
            /\ resource_id(activity.target) \in DOMAIN az.store
            /\ LET target == az.store[resource_id(activity.target)]
               IN  \/ is_public(target)
                   \/ is_attributed_user(principal, target)
                   \/ is_actor_collection(principal.actor, target.id)
    THEN Decision(TRUE, "Public/owned collection changes allowed", FORBIDDEN)
    ELSE Decision(FALSE, "not authorized", FORBIDDEN)

\* An Undo rule that does not compare the undone activity's actor.
undo_rule_any_actor(az, principal, activity) ==
    IF activity.object.k = "none" THEN Decision(TRUE, "Missing activity", FORBIDDEN)
    ELSE IF resource_id_raises(activity.object) THEN Raised("KeyError")
    ELSE IF /\ resource_id(activity.object) \in DOMAIN az.store
            /\ is_type_any(az.store[resource_id(activity.object)],
                           {"Follow", "Announce", "Like"})
    THEN Decision(TRUE, "Same origin/actor", FORBIDDEN)
    ELSE Decision(FALSE, "not authorized", FORBIDDEN)

\* The Undo rule of is_activity_authorized.
undo_rule(az, principal, activity) ==
    IF activity.object.k = "none" THEN Decision(TRUE, "Missing activity", FORBIDDEN)
    ELSE IF resource_id_raises(activity.object) THEN Raised("KeyError")
    ELSE LET undone_activity_uri == resource_id(activity.object)
         IN  IF /\ undone_activity_uri \in DOMAIN az.store
                /\ is_type_any(az.store[undone_activity_uri], {"Follow", "Announce", "Like"})
             THEN LET undone_activity == az.store[undone_activity_uri]
                  IN  IF undone_activity.actor.k = "none"
                      THEN Decision(TRUE, "Missing actor", FORBIDDEN)
                      ELSE IF /\ authenticated(principal)
                              /\ principal.uri = get_id(undone_activity.actor)
                      THEN Decision(TRUE, "Same origin/actor", FORBIDDEN)
                      ELSE Decision(FALSE, "not authorized", FORBIDDEN)
             ELSE Decision(FALSE, "not authorized", FORBIDDEN)

\* The Update and Delete rule of is_activity_authorized.
update_delete_rule(az, principal, activity) ==
    IF activity.object.k = "none" THEN Decision(TRUE, "Missing activity", FORBIDDEN)
    ELSE IF resource_id_raises(activity.object) THEN Raised("KeyError")
    ELSE IF resource_id(activity.object) \notin DOMAIN az.store
    THEN Decision(FALSE, "Object not found", 404)
    ELSE IF /\ authenticated(principal)
            /\ is_attributed_user(principal, az.store[resource_id(activity.object)])
    THEN Decision(TRUE, "Attributed delete allowed", FORBIDDEN)
    ELSE Decision(FALSE, "not authorized", FORBIDDEN)

\* {"type": "Create", "object": activity}
wrapped(activity) ==
    [Resource(NONE, Single("Create")) EXCEPT
        !.object = DocRef(activity.id, get_id(activity.type), get_id(activity.actor), NONE)]

\* An activity authorization that denies a type it does not know.
is_activity_authorized_known_only(az, principal, activity) ==
    IF is_type_any(activity, {"Add", "Remove"})
    THEN add_remove_rule(az, principal, activity)
    ELSE IF is_type_any(activity,
                {"Announce", "Like", "Follow", "Accept", "Reject", "Create", "Block"})
    THEN Decision(TRUE, "authorized", FORBIDDEN)
    ELSE IF is_type(activity, "Undo") THEN undo_rule(az, principal, activity)
    ELSE IF is_type_any(activity, {"Update", "Delete"})
    THEN update_delete_rule(az, principal, activity)
    ELSE Decision(FALSE, "not authorized", FORBIDDEN)

\* CoreAuthorizationService.is_activity_authorized.  The decision of the
\* nested call is an object, which `if` takes for true whatever it says.
RECURSIVE is_activity_authorized(_, _, _)
is_activity_authorized(az, principal, activity) ==
    IF is_type_any(activity, {"Add", "Remove"})
    THEN add_remove_rule(az, principal, activity)
    ELSE IF is_type_any(activity,
                {"Announce", "Like", "Follow", "Accept", "Reject", "Create", "Block"})
    THEN Decision(TRUE, "authorized", FORBIDDEN)
    ELSE IF is_type(activity, "Undo") THEN undo_rule(az, principal, activity)
    ELSE IF is_type_any(activity, {"Update", "Delete"})
    THEN update_delete_rule(az, principal, activity)
    ELSE IF az.next_auth.configured THEN az.next_auth.decision
    ELSE LET nested == is_activity_authorized(az, principal, wrapped(activity))
         IN  IF nested.raised # NONE THEN [nested EXCEPT !.calls = @ + 1]
             ELSE [Decision(TRUE, "Implicit create is allowed", FORBIDDEN)
                      EXCEPT !.calls = nested.calls + 1]

-----------------------------------------------------------------------------
(* The documents, principals and calls of the authorization engine         *)

P1 == "https://server.test/user/1"
P2 == "https://Remote.Test:8443/user/2"
AuthzPrefix == "http://tenant1.test"

Actor(id) ==
    [Resource(id, Single("Person")) EXCEPT
        !.inbox = Single(id \o "/inbox"), !.outbox = Single(id \o "/outbox"),
        !.followers = Single(id \o "/followers"), !.following = Single(id \o "/following"),
        !.liked = Single(id \o "/liked"), !.shares = Single(id \o "/shares")]

Note(id) == Resource(id, Single("Note"))

Blocks(id, prefix, domains, actors) ==
    [Resource(id, Single("firm:Blocks")) EXCEPT
        !.attributedTo = Single(prefix), !.blockedDomain = domains, !.blockedActor = actors]

\* What every store holds: the two actors, boxes and collections, some
\* activities received earlier, and notes.
StoredDocuments ==
    { Actor(P1), Actor(P2),
      Resource(P1 \o "/inbox", Single("OrderedCollection")),
      Resource(P1 \o "/outbox", Single("OrderedCollection")),
      Resource(P2 \o "/inbox", Single("OrderedCollection")),
      Resource(P1 \o "/followers", Single("Collection")),
      Resource("https://server.test/collection/1", Single("Collection")),
      [Resource("https://server.test/collection/2", Single("Collection")) EXCEPT
          !.audience = Single(AP_PUBLIC_URIS[1])],
      [Resource("https://server.test/collection/3", Single("Collection")) EXCEPT
          !.attributedTo = Single(P1)],
      [Resource("https://server.test/follow/1", Single("Follow")) EXCEPT
          !.actor = Single(P1), !.object = UriRef(P2)],
      [Resource("https://server.test/like/2", Single("Like")) EXCEPT
          !.actor = Single(P2), !.object = UriRef("https://server.test/note/1")],
      [Resource("https://server.test/announce/0", Single("Announce")) EXCEPT
          !.object = UriRef("https://server.test/note/1")],
      [Resource("https://server.test/create/1", Single("Create")) EXCEPT
          !.actor = Single(P1), !.object = UriRef("https://server.test/note/1")],
      [Resource("https://server.test/create/0", Single("Create")) EXCEPT
          !.object = UriRef("https://server.test/note/1")],
      [Note("https://server.test/note/1") EXCEPT !.attributedTo = Single(P1)],
      [Note("https://server.test/note/2") EXCEPT !.attributedTo = List(<<P2>>)],
      Note("https://server.test/note/3") }

\* The block lists a store may hold, one document at most.
BlockLists ==
    { Blocks("http://tenant1.test/block", AuthzPrefix, List(<<"server.test">>), Absent),
      Blocks("http://tenant1.test/block", AuthzPrefix, Absent, List(<<P2>>)),
      Blocks("http://tenant1.test/block", AuthzPrefix,
             List(<<"example.test", "remote.test">>), List(<<P1>>)),
      Blocks("http://tenant1.test/block", AuthzPrefix, List(<<"remote.test:8443">>), List(<<>>)),
      Blocks("http://tenant2.test/block", "http://tenant2.test",
             List(<<"server.test", "remote.test">>), List(<<P1, P2>>)) }

StoreOf(documents) ==
    [id \in {d.id : d \in documents} |-> CHOOSE d \in documents : d.id = id]

Stores == {StoreOf(StoredDocuments)} \cup {StoreOf(StoredDocuments \cup {b}) : b \in BlockLists}

NextAuths ==
    { NoNextAuth,
      NextAuth(Decision(TRUE, "allowed by the next authorizer", FORBIDDEN)),
      NextAuth(Decision(FALSE, "denied by the next authorizer", FORBIDDEN)) }

Services == {Service(AuthzPrefix, s, n) : s \in Stores, n \in NextAuths}

Principals == {Anonymous, Principal(Actor(P1)), Principal(Actor(P2))}

\* The resources a GET asks for.
GetResources ==
    {[Note("https://server.test/note/9") EXCEPT ![key] = Single(AP_PUBLIC_URIS[i])] :
        key \in {"to", "cc", "bto", "bcc", "audience"}, i \in 1..Len(AP_PUBLIC_URIS)}
    \cup
    {[Note("https://server.test/note/9") EXCEPT ![key] = v] :
        key \in {"to", "cc"},
        v \in {List(<<P2, "as:Public">>), List(<<>>), Single(P1), List(<<P2, P1>>),
               Single("https://server.test/user/OTHER")}}
    \cup
    { Note("https://server.test/note/9"),
      Actor(P1),
      Resource("https://server.test/app/1", List(<<"Custom", "Application">>)),
      Resource(P1 \o "/inbox", Single("OrderedCollection")),
      Resource(P2 \o "/inbox", Single("OrderedCollection")),
      [Resource(P2 \o "/inbox", Single("OrderedCollection")) EXCEPT
          !.audience = Single("Public")],
      Resource(P1 \o "/outbox", Single("OrderedCollection")),
      [Note("https://server.test/note/9") EXCEPT !.attributedTo = Single(P1)],
      [Note("https://server.test/note/9") EXCEPT !.attributedTo = List(<<P2, P1>>)],
      [Resource("https://server.test/create/9", Single("Create")) EXCEPT
          !.actor = Single(P1)],
      [Resource("https://server.test/create/9", Single("Create")) EXCEPT
          !.actor = List(<<P1, P2>>)],
      [Resource("https://server.test/create/9", Single("Create")) EXCEPT
          !.actor = Single(P2), !.attributedTo = Single(P1)],
      [Resource("https://server.test/create/9", Single("Create")) EXCEPT
          !.actor = Single(P2), !.bcc = Single(P1)] }

\* The boxes a POST names.
BoxUris == {P1 \o "/inbox", P1 \o "/outbox", P2 \o "/inbox", P2 \o "/outbox"}

\* The activities whose authorization is asked.
ActivityOf(type, object, target) ==
    [Resource("https://server.test/activity/9", type) EXCEPT
        !.object = object, !.target = target]

Targets ==
    { NoRef, UriRef("https://server.test/collection/1"),
      UriRef("https://server.test/collection/2"), UriRef("https://server.test/collection/3"),
      UriRef(P1 \o "/followers"), UriRef("https://server.test/collection/gone") }

UndoneRefs ==
    { NoRef, UriRef("https://server.test/follow/1"), UriRef("https://server.test/like/2"),
      UriRef("https://server.test/announce/0"), UriRef("https://server.test/create/1"),
      UriRef("https://server.test/create/0"),
      DocRef("https://server.test/follow/1", "Follow", P1, P2),
      DocRef("https://server.test/follow/8", "Follow", P1, P2),
      DocRef("https://server.test/like/8", "Like", NONE, "https://server.test/note/1"),
      DocRef("https://server.test/follow/1", "Follow", P2, P2),
      DocRef(NONE, "Follow", P1, P2) }

ChangedRefs ==
    { NoRef, UriRef("https://server.test/note/1"), UriRef("https://server.test/note/2"),
      UriRef("https://server.test/note/3"), UriRef("https://server.test/note/gone"),
      DocRef("https://server.test/note/1", "Note", NONE, NONE) }

Activities ==
    {ActivityOf(Single(t), o, target) :
        t \in {"Add", "Remove"}, o \in {NoRef, UriRef("https://server.test/note/1")},
        target \in Targets}
    \cup
    {ActivityOf(Single("Undo"), o, NoRef) : o \in UndoneRefs}
    \cup
    {ActivityOf(Single(t), o, NoRef) : t \in {"Update", "Delete"}, o \in ChangedRefs}
    \cup
    {ActivityOf(t, UriRef("https://server.test/note/1"), NoRef) :
        t \in {Single("Create"), Single("Follow"), Single("Block"), List(<<"Custom", "Like">>),
               Single("Move"), Single("Question"), List(<<"Custom">>), Absent}}

-----------------------------------------------------------------------------
(* The authorization chain (firm/auth/chained.py) *)

\* An AuthorizationService as the chain sees it: something that answers each
\* of the three questions with an AuthorizationDecision.  The decision of an
\* authorizer carries its name as the reason, and 401 when it denies.
Authorizer(name, gets, posts, activities) ==
    [name |-> name, get |-> gets, post |-> posts, activity |-> activities]

authz_is_get_authorized(authz_, principal, obj) ==
    Decision(authz_.get, authz_.name, IF authz_.get THEN FORBIDDEN ELSE 401)

authz_is_post_authorized(authz_, principal, box_type, box_uri) ==
    Decision(authz_.post, authz_.name, IF authz_.post THEN FORBIDDEN ELSE 401)

authz_is_activity_authorized(authz_, principal, activity) ==
    Decision(authz_.activity, authz_.name, IF authz_.activity THEN FORBIDDEN ELSE 401)

\* A question put to an authorizer, with the arguments it was given.
Question(op, principal, resource, box_type, box_uri) ==
    [op |-> op, principal |-> principal, resource |-> resource,
     box_type |-> box_type, box_uri |-> box_uri]

\* One call of the chain on its i-th authorizer.
Consulted(i, c) == [authorizer |-> i, call |-> c]

\* The `for authz in self.authorizers` loop: the authorizers are asked in
\* list order up to the first that authorizes, whose decision is returned;
\* with none, every one has been asked and the chain denies.
chain_loop(decisions, c) ==
    LET hits == {i \in 1..Len(decisions) : decisions[i].authorized}
    IN  IF hits = {}
        THEN [decision |-> Decision(FALSE, "not authorized", FORBIDDEN),
              consulted |-> [i \in 1..Len(decisions) |-> Consulted(i, c)]]
        ELSE LET first == CHOOSE i \in hits : \A j \in hits : i <= j
             IN  [decision |-> decisions[first],
                  consulted |-> [i \in 1..first |-> Consulted(i, c)]]

chain_is_get_authorized_last(self, principal, obj) ==
    LET c == Question("get", principal, obj, NONE, NONE)
        decisions == [i \in 1..Len(self) |-> authz_is_get_authorized(self[i], principal, obj)]
        hits == {i \in 1..Len(self) : decisions[i].authorized}
    IN  IF hits = {} THEN chain_loop(decisions, c)
        ELSE [decision |-> decisions[CHOOSE i \in hits : \A j \in hits : i >= j],
              consulted |-> [i \in 1..Len(self) |-> Consulted(i, c)]]

chain_is_get_authorized(self, principal, obj) ==
    chain_loop([i \in 1..Len(self) |-> authz_is_get_authorized(self[i], principal, obj)],
               Question("get", principal, obj, NONE, NONE))

chain_is_post_authorized(self, principal, box_type, box_uri) ==
    chain_loop([i \in 1..Len(self) |->
                    authz_is_post_authorized(self[i], principal, box_type, box_uri)],
               Question("post", principal, Resource(NONE, Absent), box_type, box_uri))

chain_is_activity_authorized(self, principal, activity) ==
    chain_loop([i \in 1..Len(self) |->
                    authz_is_activity_authorized(self[i], principal, activity)],
               Question("activity", principal, activity, NONE, NONE))

\* The longest chain.
MaxAuthorizers == 3

AuthorizerNames == {"first.authz", "second.authz"}

Authorizers ==
    {Authorizer(name, gets, posts, activities) :
        name \in AuthorizerNames, gets \in BOOLEAN, posts \in BOOLEAN,
        activities \in BOOLEAN}

RECURSIVE ChainsOf(_)
ChainsOf(n) ==
    IF n = 0 THEN {<<>>}
    ELSE ChainsOf(n - 1) \cup
         {Append(chain, a) : chain \in {c \in ChainsOf(n - 1) : Len(c) = n - 1},
                             a \in Authorizers}

Chains == ChainsOf(MaxAuthorizers)

-----------------------------------------------------------------------------
(* Authentication: HTTP signatures (firm/auth/http_signature.py) *)

\* str.lower() on the methods and the header names that occur.
http_lower(s) ==
    CASE s = "GET" -> "get"
      [] s = "POST" -> "post"
      [] s = "(request-target)" -> "(request-target)"
      [] s = "host" -> "host"
      [] s = "date" -> "date"
      [] s = "digest" -> "digest"
      [] s = "" -> ""
      [] s = "Basic" -> "basic"
      [] s = "basic" -> "basic"
      [] s = "Bearer" -> "bearer"
      [] s = "bearer" -> "bearer"

\* The Signature header: absent, or the four fields HttpSignatureAuth.sign
\* writes and get_signature_fields reads back.  "headers" is the list that
\* " ".join makes one string of.
NoSignature ==
    [k |-> "none", keyId |-> NONE, algorithm |-> NONE, headers |-> <<>>,
     signature |-> [b64 |-> [by |-> NONE, data |-> NONE]]]

SignatureHeader(keyId, algorithm, headers_text, signature) ==
    [k |-> "str", keyId |-> keyId, algorithm |-> algorithm, headers |-> headers_text,
     signature |-> signature]

\* signature_fields["headers"].split(" "): the names joined, and one empty
\* name where none was joined.
split_headers(headers_text) == IF headers_text = <<>> THEN <<"">> ELSE headers_text

\* The Authorization header: absent, or a string that auth.split() cuts
\* into so many tokens, of which the first is the scheme and the second the
\* credentials.  Credentials are the base64 text of a string, given by the
\* segments the colons of that string separate; or text whose padding is
\* wrong (binascii.Error); or the base64 text of bytes that are no UTF-8
\* (UnicodeDecodeError).
NoAuthorization ==
    [k |-> "none", tokens |-> 0, scheme |-> NONE,
     credentials |-> [k |-> "none", segments |-> <<>>]]

Authorization(tokens, scheme, credentials) ==
    [k |-> "str", tokens |-> tokens, scheme |-> scheme, credentials |-> credentials]

Base64Of(segments) == [k |-> "b64", segments |-> segments]

\* An HttpRequest: request.headers is a mapping from the names of the
\* headers present, compared without regard to case as HTTP has it and kept
\* here in lower case, to their values; the Signature and Authorization
\* headers are kept beside it.  An empty body is "".
HttpRequest(method, host_, path, query_, headers, body) ==
    [method |-> method, url |-> [hostname |-> host_, path |-> path, query |-> query_],
     headers |-> headers, signature |-> NoSignature, authorization |-> NoAuthorization,
     body |-> body]

WithHeader(headers, name, value) ==
    [n \in DOMAIN headers \cup {name} |-> IF n = name THEN value ELSE headers[n]]

WithoutHeader(headers, name) == [n \in DOMAIN headers \ {name} |-> headers[n]]

\* RSA, PKCS1v15 with SHA-256: a signature names the private key that made
\* it and the data it was made of, and verifies under the public key of
\* that key pair for that data alone.
public_key(private_key) ==
    CASE private_key = "key1.private" -> "key1.public"
      [] private_key = "key2.private" -> "key2.public"

rsa_sign(private_key, data) == [by |-> private_key, data |-> data]

rsa_verify(public, signature, data) ==
    /\ signature.by # NONE
    /\ public_key(signature.by) = public
    /\ signature.data = data

\* isinstance(public_key, (DHPublicKey, X25519PublicKey, X448PublicKey))
is_unsupported_key(public) == public \in {"x25519.public"}

b64encode(bytes) == [b64 |-> bytes]

b64decode(text) == text.b64

\* "SHA-256=" + base64(sha256(body))
Digest(body) == "SHA-256=" \o "sha256(" \o body \o ")"

\* formatdate(): the time of signing
Now == "Thu, 05 Nov 2026 12:00:00 GMT"

DEFAULT_HEADERS == <<"(request-target)", "host", "date", "digest">>

RECURSIVE Join(_, _)
Join(strings, sep) ==
    IF strings = <<>> THEN ""
    ELSE IF Len(strings) = 1 THEN strings[1]
    ELSE strings[1] \o sep \o Join(Tail(strings), sep)

\* One turn of the loop of construct_signature_data: a line of the signing
\* string, nothing (an absent digest of an empty body), or KeyError.
signature_line(request, header) ==
    IF http_lower(header) = "(request-target)"
    THEN [k |-> "line", name |-> "(request-target)",
          text |-> "(request-target): " \o http_lower(request.method) \o " "
                       \o request.url.path]
    ELSE IF header \in DOMAIN request.headers
    THEN [k |-> "line", name |-> http_lower(header),
          text |-> http_lower(header) \o ": " \o request.headers[header]]
    ELSE IF header = "digest" /\ request.body = ""
    THEN [k |-> "skip", name |-> NONE, text |-> NONE]
    ELSE [k |-> "raise", name |-> NONE, text |-> NONE]

\* HttpSignatureMixin.construct_signature_data
construct_signature_data(request, headers) ==
    LET lines == [i \in 1..Len(headers) |-> signature_line(request, headers[i])]
        used == SelectSeq(lines, LAMBDA l : l.k = "line")
    IN  IF \E i \in 1..Len(lines) : lines[i].k = "raise"
        THEN [k |-> "raise", signed_string |-> NONE, headers_text |-> <<>>]
        ELSE [k |-> "ok",
              signed_string |-> Join([i \in 1..Len(used) |-> used[i].text], "\n"),
              headers_text |-> [i \in 1..Len(used) |-> used[i].name]]

\* HttpSignatureMixin.synthesize_headers
RECURSIVE synthesize_headers(_, _)
synthesize_headers(headers, request) ==
    IF headers = <<>> THEN request
    ELSE LET header == Head(headers)
             synthesized ==
                 IF header \in DOMAIN request.headers THEN request
                 ELSE IF http_lower(header) = "date"
                 THEN [request EXCEPT !.headers = WithHeader(@, "date", Now)]
                 ELSE IF http_lower(header) = "digest"
                 THEN IF request.body # ""
                      THEN [request EXCEPT !.headers =
                                               WithHeader(@, "digest", Digest(request.body))]
                      ELSE request
                 ELSE IF http_lower(header) = "host"
                 THEN [request EXCEPT !.headers = WithHeader(@, "host", request.url.hostname)]
                 ELSE request
         IN  synthesize_headers(Tail(headers), synthesized)

HttpSignatureAuth(key_id, private_key, headers) ==
    [key_id |-> key_id, private_key |-> private_key, headers |-> headers]

\* HttpSignatureAuth.sign: the request with its headers synthesized and its
\* Signature header set, or the exception construct_signature_data raised.
sign(self, request) ==
    LET synthesized == synthesize_headers(self.headers, request)
        data == construct_signature_data(synthesized, self.headers)
    IN  IF data.k = "raise" THEN [k |-> "raise", request |-> synthesized]
        ELSE [k |-> "ok",
              request |->
                  [synthesized EXCEPT !.signature =
                      SignatureHeader(self.key_id, "rsa-sha256", data.headers_text,
                          b64encode(rsa_sign(self.private_key, data.signed_string)))]]

\* A document of the store an authenticator reads: a key, an actor, or
\* credentials.  The publicKey of a document is absent, a URI, or an object.
NoKey == [k |-> "absent", owner |-> NONE, publicKeyPem |-> NONE]

KeyUri == [k |-> "str", owner |-> NONE, publicKeyPem |-> NONE]

KeyObject(owner, publicKeyPem) ==
    [k |-> "map", owner |-> owner, publicKeyPem |-> publicKeyPem]

AuthDocument(id) ==
    [id |-> id, type |-> NONE, owner |-> NONE, publicKeyPem |-> NONE, publicKey |-> NoKey,
     attributedTo |-> NONE, password |-> NONE, token |-> NONE]

\* A store that holds these documents.
AuthStoreOf(documents) ==
    [id \in {d.id : d \in documents} |-> CHOOSE d \in documents : d.id = id]

\* key_id.replace("#main-key", "")
strip_main_key(key_id) ==
    CASE key_id = "https://remote.test/user/2#main-key" -> "https://remote.test/user/2"
      [] key_id = "https://remote.test/keys/2" -> "https://remote.test/keys/2"

\* What an authenticator returns: an identity, None, or an exception.
Identity(uri) == [k |-> "identity", uri |-> uri, exception |-> NONE]

NoIdentity == [k |-> "none", uri |-> NONE, exception |-> NONE]

AuthnRaised(exception) == [k |-> "raise", uri |-> NONE, exception |-> exception]

\* The key a publicKey object is.
Nested(publicKey) ==
    [AuthDocument(NONE) EXCEPT
        !.owner = publicKey.owner, !.publicKeyPem = publicKey.publicKeyPem]

\* Lines 96-109 of authenticate: the document the key id leads to, which is
\* the one stored under it, else the publicKey object of the actor the key
\* id is a fragment of, and the publicKey inside that document if it has one;
\* none; or KeyError for an actor without publicKey.
resolve_key(s, key_id) ==
    LET actor_id == strip_main_key(key_id)
        key ==
            IF key_id \in DOMAIN s
            THEN [k |-> "map", doc |-> s[key_id]]
            ELSE IF actor_id \in DOMAIN s
            THEN IF s[actor_id].publicKey.k = "absent"
                 THEN [k |-> "raise", doc |-> AuthDocument(NONE)]
                 ELSE IF s[actor_id].publicKey.k = "map"
                 THEN [k |-> "map", doc |-> Nested(s[actor_id].publicKey)]
                 ELSE [k |-> "none", doc |-> AuthDocument(NONE)]
            ELSE [k |-> "none", doc |-> AuthDocument(NONE)]
    IN  IF key.k = "map" /\ key.doc.publicKey.k # "absent"
        THEN IF key.doc.publicKey.k = "map"
             THEN [k |-> "map", doc |-> Nested(key.doc.publicKey)]
             ELSE [k |-> "none", doc |-> AuthDocument(NONE)]
        ELSE key

\* HttpSigAuthenticator.authenticate, with every signature accepted that
\* was made by the private key of the verifying public key.
authenticate_any_data(s, request) ==
    IF request.signature.k = "none" THEN NoIdentity
    ELSE LET key == resolve_key(s, request.signature.keyId)
         IN  IF key.k # "map" \/ key.doc.publicKeyPem = NONE THEN AuthnRaised("ValueError")
             ELSE IF b64decode(request.signature.signature).by = NONE
                     \/ public_key(b64decode(request.signature.signature).by)
                            # key.doc.publicKeyPem
             THEN NoIdentity
             ELSE Identity(key.doc.owner)

\* HttpSigAuthenticator.authenticate
authenticate(s, request) ==
    IF request.signature.k = "none" THEN NoIdentity
    ELSE LET signature == b64decode(request.signature.signature)
             headers == split_headers(request.signature.headers)
             data == construct_signature_data(request, headers)
             key == resolve_key(s, request.signature.keyId)
         IN  IF data.k = "raise" THEN AuthnRaised("KeyError")
             ELSE IF key.k = "raise" THEN AuthnRaised("KeyError")
             ELSE IF key.k # "map" \/ key.doc.publicKeyPem = NONE
             THEN AuthnRaised("ValueError")
             ELSE IF is_unsupported_key(key.doc.publicKeyPem) THEN NoIdentity
             ELSE IF ~rsa_verify(key.doc.publicKeyPem, signature, data.signed_string)
             THEN NoIdentity
             ELSE IF key.doc.owner \in DOMAIN s THEN Identity(key.doc.owner)
             ELSE AuthnRaised("ValueError")

(* Authentication: HTTP Basic (firm/auth/http_basic.py) *)

\* bcrypt: the hash of a password, and the check of a password against one.
hash_password(password) == "bcrypt(" \o password \o ")"

verify_hash(provided_pass, user_pass) == hash_password(provided_pass) = user_pass

\* store.query_one({"type": "firm:Credentials", "attributedTo": actor_uri})
credentials_query_one(s, actor_uri) ==
    LET matches == {id \in DOMAIN s : /\ s[id].type = "firm:Credentials"
                                       /\ s[id].attributedTo = actor_uri}
    IN  IF matches = {} THEN [k |-> "none", doc |-> AuthDocument(NONE)]
        ELSE IF Cardinality(matches) = 1
        THEN [k |-> "one", doc |-> s[CHOOSE id \in matches : TRUE]]
        ELSE [k |-> "raise", doc |-> AuthDocument(NONE)]

\* Lines 41-61 of BasicHttpAuthenticator.authenticate: decoded.rindex(":")
\* raises ValueError for a string without colon; what precedes the last
\* colon is the actor URI and what follows it the password.
basic_credentials(s, decoded) ==
    IF Len(decoded) < 2 THEN AuthnRaised("ValueError")
    ELSE LET actor_uri == Join(SubSeq(decoded, 1, Len(decoded) - 1), ":")
             password == decoded[Len(decoded)]
             credentials_resource == credentials_query_one(s, actor_uri)
         IN  IF credentials_resource.k = "raise" THEN AuthnRaised("ValueError")
             ELSE IF /\ credentials_resource.k = "one"
                     /\ credentials_resource.doc.password # NONE
                     /\ verify_hash(password, credentials_resource.doc.password)
             THEN IF actor_uri \in DOMAIN s THEN Identity(s[actor_uri].id)
                  ELSE Identity(NONE)
             ELSE NoIdentity

\* BasicHttpAuthenticator.authenticate
basic_authenticate(s, request) ==
    LET auth == request.authorization
    IN  IF auth.k = "none" THEN NoIdentity
        ELSE IF auth.tokens # 2 THEN AuthnRaised("AuthenticationError")
        ELSE IF http_lower(auth.scheme) # "basic" THEN NoIdentity
        ELSE IF auth.credentials.k # "b64" THEN AuthnRaised("AuthenticationError")
        ELSE basic_credentials(s, auth.credentials.segments)

(* The requests and the stores of HTTP Basic *)

BasicActor == "https://server.test/user/1"

\* "https://server.test/user/1" and "https://server.test/user/3" as the
\* colon of the scheme cuts them.
BasicActorSegments == <<"https", "//server.test/user/1">>

UnknownActorSegments == <<"https", "//server.test/user/3">>

BasicCredentials ==
    {Base64Of(BasicActorSegments \o <<"letmein">>),
     Base64Of(BasicActorSegments \o <<"BOGUS">>),
     Base64Of(BasicActorSegments \o <<"">>),
     Base64Of(BasicActorSegments \o <<"let", "mein">>),
     Base64Of(UnknownActorSegments \o <<"letmein">>),
     Base64Of(<<"letmein">>),
     Base64Of(<<"">>),
     [k |-> "padding", segments |-> <<>>],
     [k |-> "notutf8", segments |-> <<>>]}

BasicRequests ==
    {[HttpRequest("GET", "server.test", "/", "", <<>>, "") EXCEPT !.authorization = a] :
        a \in {NoAuthorization,
               Authorization(1, "Basic", [k |-> "none", segments |-> <<>>]),
               Authorization(2, "Bearer", Base64Of(BasicActorSegments \o <<"letmein">>))}
              \cup {Authorization(tokens, scheme, credentials) :
                       tokens \in {2, 3}, scheme \in {"Basic", "basic"},
                       credentials \in BasicCredentials}}

CredentialsDocument(id, attributedTo, password) ==
    [AuthDocument(id) EXCEPT
        !.type = "firm:Credentials", !.attributedTo = attributedTo, !.password = password]

\* The actor with its credentials, as test_auth.py has them; the password
\* on the actor itself and no credentials; credentials that hold a token and
\* no password; credentials of a password and credentials of a token side
\* by side; credentials of an actor that is not stored; nothing.
CredentialStores ==
    {AuthStoreOf({AuthDocument(BasicActor),
                  CredentialsDocument("urn:uuid:1234", BasicActor, hash_password("letmein"))}),
     AuthStoreOf({[AuthDocument(BasicActor) EXCEPT !.password = hash_password("letmein")]}),
     AuthStoreOf({AuthDocument(BasicActor),
                  CredentialsDocument("urn:uuid:1234", BasicActor, NONE)}),
     AuthStoreOf({AuthDocument(BasicActor),
                  CredentialsDocument("urn:uuid:1234", BasicActor, hash_password("letmein")),
                  CredentialsDocument("urn:uuid:5678", BasicActor, NONE)}),
     AuthStoreOf({CredentialsDocument("urn:uuid:1234", BasicActor, hash_password("letmein"))}),
     AuthStoreOf({})}

(* The signers, the requests and the stores of the signature round trip *)

SigActor == "https://remote.test/user/2"

SigKeyId == "https://remote.test/user/2#main-key"

SignerHeaders == {DEFAULT_HEADERS, <<"(request-target)", "host">>, <<"host", "date">>}

Signers ==
    {HttpSignatureAuth(SigKeyId, private_key, headers) :
        private_key \in {"key1.private", "key2.private"}, headers \in SignerHeaders}

HeaderValues(name) ==
    CASE name = "host" -> {"server.test", "other.test"}
      [] name = "date" -> {"Thu, 05 Nov 2026 11:00:00 GMT", Now}
      [] name = "digest" -> {Digest("body1"), Digest("body2")}

Bodies == {"", "body1", "body2"}

UnsignedRequests ==
    {HttpRequest(method, "server.test", "/inbox", "", headers, body) :
        method \in {"GET", "POST"},
        headers \in {[n \in {} |-> ""],
                     [n \in {"host", "date"} |->
                         IF n = "host" THEN "server.test"
                         ELSE "Thu, 05 Nov 2026 11:00:00 GMT"]},
        body \in {"", "body1"}}

\* What may reach the verifier in place of the request: one part of it is
\* not what it was.
Changed(request) ==
    {[request EXCEPT !.method = m] : m \in {"GET", "POST"} \ {request.method}}
    \cup {[request EXCEPT !.url.path = "/outbox"], [request EXCEPT !.url.query = "page=2"]}
    \cup UNION {{[request EXCEPT !.headers = WithHeader(@, n, v)] :
                     v \in {x \in HeaderValues(n) :
                               n \in DOMAIN request.headers => request.headers[n] # x}} :
                 n \in {"host", "date", "digest"}}
    \cup {[request EXCEPT !.headers = WithoutHeader(@, n)] : n \in DOMAIN request.headers}
    \cup {[request EXCEPT !.body = b] : b \in Bodies \ {request.body}}

KeyDocument(id, owner, publicKeyPem) ==
    [AuthDocument(id) EXCEPT !.owner = owner, !.publicKeyPem = publicKeyPem]

ActorDocument(id, publicKey) == [AuthDocument(id) EXCEPT !.publicKey = publicKey]

\* The key published under the key id, as test_auth.py does, with the public
\* key of either pair or a key that is no RSA key; the key inside its actor
\* alone; the actor itself under the key id; a key whose owner is unknown;
\* an actor without publicKey, and one whose publicKey is a URI; nothing.
KeyStores ==
    {AuthStoreOf({KeyDocument(SigKeyId, SigActor, pem), ActorDocument(SigActor, NoKey)}) :
        pem \in {"key1.public", "key2.public", "x25519.public"}}
    \cup
    {AuthStoreOf({ActorDocument(SigActor, KeyObject(SigActor, "key1.public"))}),
     AuthStoreOf({ActorDocument(SigKeyId, KeyObject(SigActor, "key1.public")),
                  ActorDocument(SigActor, KeyObject(SigActor, "key1.public"))}),
     AuthStoreOf({KeyDocument(SigKeyId, SigActor, "key1.public")}),
     AuthStoreOf({ActorDocument(SigActor, NoKey)}),
     AuthStoreOf({ActorDocument(SigActor, KeyUri)}),
     AuthStoreOf({})}

\* The changes a request undergoes between signing and verification.
MaxChanges == 1

-----------------------------------------------------------------------------
(* The resource stores (firm/store) *)

(* A store holds JSON objects under their URIs.  Here a JSON object is a   *)
(* function from the keys the stores are given to values: a string, a list *)
(* of strings, Python's None (Absent), or Missing for a key the object     *)
(* does not have.  The object all of whose keys are missing is {}.         *)

Missing == [k |-> "missing", v |-> <<>>]

Keys == {"id", "type", "name", "@prefix"}

JSONObject(id, type, name, prefix) ==
    [key \in Keys |-> CASE key = "id" -> id
                        [] key = "type" -> type
                        [] key = "name" -> name
                        [] key = "@prefix" -> prefix]

EmptyObject == JSONObject(Missing, Missing, Missing, Missing)

\* key in obj
has_key(obj, key) == obj[key] # Missing

\* obj.get(key): None for a key the object does not have
dict_get(obj, key) == IF has_key(obj, key) THEN obj[key] ELSE Absent

\* obj.update(updates)
dict_update(obj, updates) ==
    [key \in Keys |-> IF has_key(updates, key) THEN updates[key] ELSE obj[key]]

\* if "id" in updates: del updates["id"]
without_id(updates) == [updates EXCEPT !["id"] = Missing]

\* ck.startswith("@")
startswith_at(ck) == CASE ck = "@prefix" -> TRUE [] OTHER -> FALSE

\* str(resource["id"]) of an id that is a string
str_id(resource) == resource["id"].v[1]

\* What a call of a store returns: None, an object, a list of objects (as
\* the set of them), a bool, or the exception that left it.
Result(k, doc, docs, exception) ==
    [k |-> k, doc |-> doc, docs |-> docs, exception |-> exception]

ReturnsNone == Result("none", EmptyObject, {}, NONE)

ReturnsObject(doc) == Result("object", doc, {}, NONE)

ReturnsList(docs) == Result("list", EmptyObject, docs, NONE)

ReturnsBool(b) == Result(IF b THEN "True" ELSE "False", EmptyObject, {}, NONE)

Raises(exception) == Result("raise", EmptyObject, {}, exception)

\* A call's outcome: the store as the call left it, and its result.
Outcome(contents, result) == [contents |-> contents, result |-> result]

\* ResourceStoreBase.is_match
base_is_match(obj, criteria) ==
    \A ck \in {key \in Keys : has_key(criteria, key)} :
        \/ startswith_at(ck)
        \/ LET v == dict_get(obj, ck)
               cv == criteria[ck]
           IN  IF v.k = "list" THEN cv.k = "str" /\ IsIn(cv.v[1], v.v) ELSE v = cv

\* ResourceStoreBase.query_one with the first of several matches returned
base_query_one_first(matches) ==
    IF matches.k = "raise" THEN matches
    ELSE IF Cardinality(matches.docs) = 0 THEN ReturnsNone
    ELSE ReturnsObject(CHOOSE doc \in matches.docs : TRUE)

\* ResourceStoreBase.query_one, given what self.query(criteria) returned
base_query_one(matches) ==
    IF matches.k = "raise" THEN matches
    ELSE IF Cardinality(matches.docs) = 0 THEN ReturnsNone
    ELSE IF Cardinality(matches.docs) = 1
    THEN ReturnsObject(CHOOSE doc \in matches.docs : TRUE)
    ELSE Raises("ValueError")

(* MemoryResourceStore (firm/store/memory.py): _objects, and the number of *)
(* uuid4() values it has drawn                                             *)

MemoryResourceStore(objects, drawn) == [objects |-> objects, uuid |-> drawn]

\* self._objects[resource_id] = resource
StoredUnder(objects, uri, resource) ==
    [u \in DOMAIN objects \cup {uri} |-> IF u = uri THEN resource ELSE objects[u]]

\* del objects[uri]
Deleted(objects, uri) == [u \in DOMAIN objects \ {uri} |-> objects[u]]

memory_get(m, uri) ==
    Outcome(m, IF uri \in DOMAIN m.objects THEN ReturnsObject(m.objects[uri])
               ELSE ReturnsNone)

memory_is_stored(m, uri) == Outcome(m, ReturnsBool(uri \in DOMAIN m.objects))

\* f"urn:uuid:{uuid.uuid4()}"
AssignedUri(m) == "urn:uuid:" \o Uuid4(m.uuid + 1)

\* MemoryResourceStore.put with the fields of the object already stored kept
memory_put_merged(m, resource) ==
    IF ~has_key(resource, "id")
    THEN Outcome(MemoryResourceStore(
                     StoredUnder(m.objects, AssignedUri(m),
                                 [resource EXCEPT !["id"] = Single(AssignedUri(m))]),
                     m.uuid + 1),
                 ReturnsNone)
    ELSE IF str_id(resource) \in DOMAIN m.objects
    THEN Outcome([m EXCEPT !.objects = StoredUnder(m.objects, str_id(resource),
                      dict_update(m.objects[str_id(resource)], resource))],
                 ReturnsNone)
    ELSE Outcome([m EXCEPT !.objects = StoredUnder(m.objects, str_id(resource), resource)],
                 ReturnsNone)

memory_put(m, resource) ==
    IF ~has_key(resource, "id")
    THEN Outcome(MemoryResourceStore(
                     StoredUnder(m.objects, AssignedUri(m),
                                 [resource EXCEPT !["id"] = Single(AssignedUri(m))]),
                     m.uuid + 1),
                 ReturnsNone)
    ELSE Outcome([m EXCEPT !.objects = StoredUnder(m.objects, str_id(resource), resource)],
                 ReturnsNone)

memory_remove(m, uri) ==
    Outcome(IF uri \in DOMAIN m.objects THEN [m EXCEPT !.objects = Deleted(m.objects, uri)]
            ELSE m,
            ReturnsNone)

memory_query(m, criteria) ==
    Outcome(m, ReturnsList({m.objects[u] :
                            u \in {u \in DOMAIN m.objects : base_is_match(m.objects[u], criteria)}}))

memory_query_one(m, criteria) ==
    Outcome(m, base_query_one(memory_query(m, criteria).result))

\* ResourceStoreBase.update with the id of the updates applied
memory_update_with_id(m, uri, updates) ==
    IF uri \in DOMAIN m.objects
    THEN memory_put(m, dict_update(m.objects[uri], updates))
    ELSE Outcome(m, Raises("ValueError"))

\* ResourceStoreBase.update, as MemoryResourceStore inherits it
memory_update(m, uri, updates) ==
    IF uri \in DOMAIN m.objects
    THEN memory_put(m, dict_update(m.objects[uri], without_id(updates)))
    ELSE Outcome(m, Raises("ValueError"))

\* ResourceStoreBase.upsert, as MemoryResourceStore inherits it
memory_upsert(m, criteria, updates) ==
    IF ~has_key(criteria, "id") THEN Outcome(m, Raises("ValueError"))
    ELSE LET found == memory_query_one(m, criteria).result
         IN  IF found.k = "raise" THEN Outcome(m, found)
             ELSE memory_put(m, dict_update(IF found.k = "none" THEN criteria ELSE found.doc,
                                            without_id(updates)))

(* SqliteResourceStore (firm/store/sqlite.py): the rows of its partition   *)
(* in the table objects, uri -> object, the object as JSON text.  The      *)
(* class derives from the protocol ResourceStore, not from                 *)
(* ResourceStoreBase: its query_one, update and upsert are the protocol's  *)
(* bodies, `...`.                                                          *)

\* json.dumps and json.loads: the text of an object, and the object of a text
json_dumps(resource) == [json |-> resource]

json_loads(text) == text.json

sqlite_get(rows, uri) ==
    Outcome(rows, IF uri \in DOMAIN rows THEN ReturnsObject(json_loads(rows[uri]))
                  ELSE ReturnsNone)

sqlite_is_stored(rows, uri) ==
    Outcome(rows, ReturnsBool(Cardinality({u \in DOMAIN rows : u = uri}) > 0))

sqlite_remove(rows, uri) == Outcome(Deleted(rows, uri), ReturnsNone)

sqlite_put(rows, resource) ==
    IF ~has_key(resource, "id") THEN Outcome(rows, Raises("KeyError"))
    ELSE Outcome(StoredUnder(sqlite_remove(rows, str_id(resource)).contents,
                             str_id(resource), json_dumps(resource)),
                 ReturnsNone)

\* f"'{value}'" in the statement: the literal a criteria value becomes.  A
\* list is formatted with quotes of its own, which end the literal early.
sql_literal(value) ==
    CASE value.k = "str" -> [k |-> "text", text |-> value.v[1]]
      [] value.k = "none" -> [k |-> "text", text |-> "None"]
      [] value.k = "list" -> [k |-> "syntax error", text |-> NONE]

\* (json_extract(object, '$.key') = 'value' or (json_type(object, '$.key') =
\* 'array' and 'value' in (select value from json_each(object, '$.key'))))
sql_field_criteria(object, key, text) ==
    LET v == dict_get(json_loads(object), key)
    IN  \/ v.k = "str" /\ v.v[1] = text
        \/ v.k = "list" /\ IsIn(text, v.v)

sqlite_query(rows, criteria) ==
    LET keys == {key \in Keys : has_key(criteria, key)}
    IN  IF keys = {} \/ \E key \in keys : sql_literal(criteria[key]).k = "syntax error"
        THEN Outcome(rows, Raises("OperationalError"))
        ELSE Outcome(rows, ReturnsList({json_loads(rows[u]) :
                 u \in {u \in DOMAIN rows :
                        \A key \in keys :
                            sql_field_criteria(rows[u], key, sql_literal(criteria[key]).text)}}))

\* ResourceStore.query_one, ResourceStore.update, ResourceStore.upsert
sqlite_query_one(rows, criteria) == Outcome(rows, ReturnsNone)

sqlite_update(rows, uri, updates) == Outcome(rows, ReturnsNone)

sqlite_upsert(rows, criteria, updates) == Outcome(rows, ReturnsNone)

(* PrefixAwareResourceStore (firm/store/prefixstore.py): a store for each  *)
(* tenant prefix, a remote store and a private store, each a               *)
(* MemoryResourceStore as in the tests.  _get_store_for_prefix is cached   *)
(* by prefix; the stores never change after construction, so the cache     *)
(* returns what the method computes.                                       *)

\* The calls one behaviour makes on the stores.
MaxCalls == 3

A1 == "https://server.test/users/alice"

B1 == "https://other.test:8443/users/bob"

R1 == "https://remote.test/note/1"

F1 == "ftp://remote.test/note/1"

K1 == "urn:uuid:1234"

\* The URIs a MemoryResourceStore assigns within one behaviour.
AssignedUris == {AssignedUri(MemoryResourceStore(<<>>, n)) : n \in 0..MaxCalls}

\* urllib.parse.urlparse: the scheme and the netloc of the strings the
\* store is given, prefixes and str(None) among them.
urlparse(url) ==
    CASE url \in {A1, "https://server.test"} ->
             [scheme |-> "https", netloc |-> "server.test"]
      [] url \in {B1, "https://other.test:8443"} ->
             [scheme |-> "https", netloc |-> "other.test:8443"]
      [] url \in {R1, "https://remote.test"} ->
             [scheme |-> "https", netloc |-> "remote.test"]
      [] url \in {F1, "ftp://remote.test"} ->
             [scheme |-> "ftp", netloc |-> "remote.test"]
      [] url \in {K1, "urn://"} \cup AssignedUris -> [scheme |-> "urn", netloc |-> ""]
      [] url \in {"None", "://"} -> [scheme |-> "", netloc |-> ""]

\* interfaces.get_url_prefix
get_url_prefix(url) == urlparse(url).scheme \o "://" \o urlparse(url).netloc

\* prefix.startswith("urn:")
is_private(prefix) == CASE prefix = "urn://" -> TRUE [] OTHER -> FALSE

\* uri.startswith("http://") or uri.startswith("https://")
is_http_uri(uri) == urlparse(uri).scheme \in {"http", "https"}

is_tenant(ps, prefix) == prefix \in DOMAIN ps.tenant_stores

\* Which of its stores the prefix store means: a tenant's, the remote store
\* or the private store.
TenantStore(prefix) == [k |-> "tenant", prefix |-> prefix]

RemoteStore == [k |-> "remote", prefix |-> NONE]

PrivateStore == [k |-> "private", prefix |-> NONE]

\* PrefixAwareResourceStore._get_store_for_prefix; a tenant's store is never
\* None, so the wildcard entry "*" is not looked up.
get_store_for_prefix(ps, prefix_) ==
    IF is_private(get_url_prefix(prefix_)) THEN PrivateStore
    ELSE IF ~is_tenant(ps, get_url_prefix(prefix_)) THEN RemoteStore
    ELSE TenantStore(get_url_prefix(prefix_))

get_store_for_uri(ps, uri) == get_store_for_prefix(ps, get_url_prefix(uri))

\* The store meant, and the prefix store with that store replaced.
StoreAt(ps, which) ==
    CASE which.k = "tenant" -> ps.tenant_stores[which.prefix]
      [] which.k = "remote" -> ps.remote_store
      [] which.k = "private" -> ps.private_store

WithStoreAt(ps, which, m) ==
    CASE which.k = "tenant" -> [ps EXCEPT !.tenant_stores[which.prefix] = m]
      [] which.k = "remote" -> [ps EXCEPT !.remote_store = m]
      [] which.k = "private" -> [ps EXCEPT !.private_store = m]

\* A call handed on to the store meant: its result, and the prefix store
\* with that store as the call left it.
Delegated(ps, which, outcome) ==
    Outcome(WithStoreAt(ps, which, outcome.contents), outcome.result)

prefix_get(ps, uri) ==
    Delegated(ps, get_store_for_uri(ps, uri),
              memory_get(StoreAt(ps, get_store_for_uri(ps, uri)), uri))

prefix_is_stored(ps, uri) ==
    Delegated(ps, get_store_for_uri(ps, uri),
              memory_is_stored(StoreAt(ps, get_store_for_uri(ps, uri)), uri))

\* uri = str(resource.get("id")): "None" for an object without id, so the
\* test `uri is None` never holds
prefix_put(ps, resource) ==
    LET uri == IF has_key(resource, "id") THEN str_id(resource) ELSE "None"
    IN  Delegated(ps, get_store_for_uri(ps, uri),
                  memory_put(StoreAt(ps, get_store_for_uri(ps, uri)), resource))

prefix_remove(ps, uri) ==
    Delegated(ps, get_store_for_uri(ps, uri),
              memory_remove(StoreAt(ps, get_store_for_uri(ps, uri)), uri))

prefix_update(ps, uri, updates) ==
    Delegated(ps, get_store_for_uri(ps, uri),
              memory_update(StoreAt(ps, get_store_for_uri(ps, uri)), uri, updates))

(* PrefixAwareResourceStoreWithFetch: the prefix store and a transport.    *)
(* The transport is None, or answers a GET with a response whose           *)
(* raise_for_status raises (or raises itself), or with a JSON object.      *)

NoTransport == [k |-> "none", json |-> EmptyObject]

Failing == [k |-> "failed", json |-> EmptyObject]

Answering(json) == [k |-> "ok", json |-> json]

\* What get returns: the outcome and the GETs sent to the transport
Fetched(outcome, requests) ==
    [contents |-> outcome.contents, result |-> outcome.result, requested |-> requests]

\* PrefixAwareResourceStoreWithFetch._fetch
fetch(transport, uri) ==
    CASE transport.k = "none" -> Raises("ValueError")
      [] transport.k = "failed" -> ReturnsNone
      [] transport.k = "ok" -> ReturnsObject(transport.json)

\* The object put, as MemoryResourceStore.put left it: with the id assigned
\* to it if it had none.
AsPut(ps, resource) ==
    IF has_key(resource, "id") THEN resource
    ELSE [resource EXCEPT !["id"] = Single(AssignedUri(StoreAt(ps, RemoteStore)))]

\* PrefixAwareResourceStoreWithFetch.get
fetch_get(ps, transport, requests, uri) ==
    IF /\ prefix_get(ps, uri).result.k = "none"
       /\ ~is_tenant(ps, get_url_prefix(uri))
       /\ is_http_uri(uri)
    THEN IF fetch(transport, uri).k = "object"
         THEN Fetched(Outcome(prefix_put(ps, fetch(transport, uri).doc).contents,
                              ReturnsObject(AsPut(ps, fetch(transport, uri).doc))),
                      Append(requests, uri))
         ELSE Fetched(Outcome(ps, fetch(transport, uri)),
                      IF transport.k = "none" THEN requests ELSE Append(requests, uri))
    ELSE Fetched(prefix_get(ps, uri), requests)

(* The calls the prefix store is given, and the transports of the fetching *)
(* store: one answers with the document asked for, others with a document  *)
(* whose id is a tenant's, a urn:, or missing.                             *)

TenantPrefixes == {"https://server.test", "https://other.test:8443"}

PrefixUris == {A1, B1, R1, F1, K1}

PrefixObjects ==
    {JSONObject(Single(A1), Single("Person"), Single("first"), Missing),
     JSONObject(Single(B1), Single("Person"), Missing, Missing),
     JSONObject(Single(R1), Single("Note"), Missing, Missing),
     JSONObject(Single(F1), Single("Note"), Missing, Missing),
     JSONObject(Single(K1), Single("firm:Credentials"), Missing, Missing),
     JSONObject(Missing, Single("Note"), Missing, Missing)}

Transports ==
    {NoTransport, Failing,
     Answering(JSONObject(Single(R1), Single("Note"), Single("fetched"), Missing)),
     Answering(JSONObject(Single(A1), Single("Person"), Single("fetched"), Missing)),
     Answering(JSONObject(Single(K1), Single("firm:Credentials"), Single("fetched"), Missing)),
     Answering(JSONObject(Missing, Single("Note"), Single("fetched"), Missing))}

(* The calls the partitions are given: objects with an id and without,    *)
(* with a string and with a list for a type; criteria with a string, a     *)
(* list or None for a value, with an '@' key, and with no key at all.      *)

S1 == "https://server.test/note/1"

S2 == "https://server.test/note/2"

StoreUris == {S1, S2, AssignedUri(MemoryResourceStore(<<>>, 0))}

StoreObjects ==
    {JSONObject(Single(S1), Single("Note"), Single("first"), Missing),
     JSONObject(Single(S1), List(<<"Note", "Article">>), Missing, Missing),
     JSONObject(Single(S2), Single("Note"), Missing, Missing),
     JSONObject(Missing, Single("Note"), Missing, Missing)}

StoreCriteria ==
    {JSONObject(Missing, Single("Note"), Missing, Missing),
     JSONObject(Missing, Single("Note"), Missing, Single("urn:")),
     JSONObject(Missing, Missing, Absent, Missing),
     JSONObject(Missing, List(<<"Note", "Article">>), Missing, Missing),
     JSONObject(Single(S1), Missing, Missing, Missing),
     JSONObject(Single(S2), Single("Article"), Missing, Missing),
     EmptyObject}

StoreUpdates ==
    {JSONObject(Missing, Missing, Single("second"), Missing),
     JSONObject(Single(S2), Single("Article"), Missing, Missing)}

-----------------------------------------------------------------------------
(* The state machine *)

Snapshot == [store |-> store, delivered |-> delivered, uuid |-> uuid]

NoRequest ==
    [method |-> NONE, url |-> Url(NONE), auth |-> NONE, activity |-> NoActivity]

Response(c) ==
    [status |-> IF c.err = 0 THEN 200 ELSE c.err, location |-> c.location, box |-> c.box]

\* No authorization service: the dispatch engine consults none.
NoService == Service(NONE, <<>>, NoNextAuth)

NoCall ==
    [op |-> NONE, principal |-> Anonymous, resource |-> Resource(NONE, Absent),
     box_type |-> NONE, box_uri |-> NONE]

NoDecision == Decision(FALSE, NONE, 0)

\* No chain: neither the dispatch engine nor the authorization engine has one.
NoChain == authorizers = <<>> /\ consulted = <<>>

\* No authenticator at work.
NotAuthenticated == [k |-> "unasked", uri |-> NONE, exception |-> NONE]

NoSigner == HttpSignatureAuth(NONE, NONE, <<>>)

NoAuthn ==
    /\ httpRequest = HttpRequest(NONE, NONE, NONE, NONE, <<>>, NONE)
    /\ authStore = <<>>
    /\ identity = NotAuthenticated
    /\ signer = NoSigner
    /\ signedRequest = HttpRequest(NONE, NONE, NONE, NONE, <<>>, NONE)
    /\ changes = 0

\* A call on the stores and its arguments; EmptyObject for one not given.
\* For a get on the fetching store, the transport it has.
StoreCall(op, uri, resource, criteria, updates) ==
    [op |-> op, uri |-> uri, resource |-> resource, criteria |-> criteria,
     updates |-> updates, transport |-> NoTransport]

NoStoreCall == StoreCall(NONE, NONE, EmptyObject, EmptyObject, EmptyObject)

\* PrefixAwareResourceStore.__init__
PrefixAwareResourceStore(tenant_stores, remote_store, private_store) ==
    [tenant_stores |-> tenant_stores, remote_store |-> remote_store,
     private_store |-> private_store]

EmptyMemory == MemoryResourceStore(<<>>, 0)

NoPrefixStore == PrefixAwareResourceStore(<<>>, EmptyMemory, EmptyMemory)

StoreSnapshot ==
    [memory |-> memory, sql |-> sql, prefixStore |-> prefixStore, requested |-> requested]

Results(memory_, sql_, prefix_) == [memory |-> memory_, sql |-> sql_, prefixStore |-> prefix_]

\* No store at work.
NoStores ==
    /\ memory = EmptyMemory
    /\ sql = <<>>
    /\ prefixStore = NoPrefixStore
    /\ requested = <<>>
    /\ storeCall = NoStoreCall
    /\ storeResult = Results(ReturnsNone, ReturnsNone, ReturnsNone)
    /\ storeBefore = [memory |-> EmptyMemory, sql |-> <<>>, prefixStore |-> NoPrefixStore,
                      requested |-> <<>>]
    /\ ncalls = 0

\* No request taken apart into its steps.
NoSteps == effects = <<>> /\ handlers = <<>>

Init ==
    /\ authz = NoService
    /\ call = NoCall
    /\ decision = NoDecision
    /\ NoChain
    /\ NoAuthn
    /\ NoStores
    /\ NoSteps
    /\ store = InitialStore
    /\ delivered = <<>>
    /\ uuid = 0
    /\ before = [store |-> InitialStore, delivered |-> <<>>, uuid |-> 0]
    /\ req = NoRequest
    /\ resp = [status |-> 0, location |-> NONE, box |-> "none"]
    /\ nreq = 0

\* One request, from its arrival to its response.
Handle(request) ==
    /\ nreq < MaxRequests
    /\ LET c == process_request(Ctx(store, delivered, uuid), request)
       IN  /\ store' = c.store
           /\ delivered' = c.delivered
           /\ uuid' = c.uuid
           /\ resp' = Response(c)
    /\ before' = Snapshot
    /\ req' = request
    /\ nreq' = nreq + 1
    /\ UNCHANGED <<authz, call, decision, chainVars, authnVars, storeVars, stepVars>>

Get == \E r \in Requests : r.method = "GET" /\ Handle(r)

Post == \E r \in Requests : r.method = "POST" /\ Handle(r)

OtherMethod == \E r \in Requests : r.method \notin {"GET", "POST"} /\ Handle(r)

Next == Get \/ Post \/ OtherMethod

Spec == Init /\ [][Next]_vars

\* The authorization engine on its own: a service over one of the stores,
\* asked one question.  It writes nothing, so that a later question is
\* answered as it would be were it the first.
AuthzInit ==
    /\ authz \in Services
    /\ call = NoCall
    /\ decision = NoDecision
    /\ NoChain
    /\ NoAuthn
    /\ NoStores
    /\ NoSteps
    /\ store = InitialStore
    /\ delivered = <<>>
    /\ uuid = 0
    /\ before = [store |-> InitialStore, delivered |-> <<>>, uuid |-> 0]
    /\ req = NoRequest
    /\ resp = [status |-> 0, location |-> NONE, box |-> "none"]
    /\ nreq = 0

Asked(c, d) ==
    /\ call = NoCall
    /\ call' = c
    /\ decision' = d
    /\ UNCHANGED <<authz, store, delivered, uuid, before, req, resp, nreq, chainVars,
                   authnVars, storeVars, stepVars>>

IsGetAuthorized ==
    \E principal \in Principals, resource \in GetResources :
        Asked([NoCall EXCEPT !.op = "get", !.principal = principal, !.resource = resource],
              is_get_authorized(authz, principal, resource))

IsPostAuthorized ==
    \E principal \in Principals, box_type \in {"inbox", "outbox"}, box_uri \in BoxUris :
        Asked([NoCall EXCEPT !.op = "post", !.principal = principal,
                             !.box_type = box_type, !.box_uri = box_uri],
              is_post_authorized(authz, principal, box_type, box_uri))

IsActivityAuthorized ==
    \E principal \in Principals, activity \in Activities :
        Asked([NoCall EXCEPT !.op = "activity", !.principal = principal,
                             !.resource = activity],
              is_activity_authorized(authz, principal, activity))

AuthzNext == IsGetAuthorized \/ IsPostAuthorized \/ IsActivityAuthorized

AuthzSpec == AuthzInit /\ [][AuthzNext]_vars

\* The chain on its own: a list of authorizers, asked one question.
ChainInit ==
    /\ authorizers \in Chains
    /\ consulted = <<>>
    /\ NoAuthn
    /\ NoStores
    /\ NoSteps
    /\ authz = NoService
    /\ call = NoCall
    /\ decision = NoDecision
    /\ store = InitialStore
    /\ delivered = <<>>
    /\ uuid = 0
    /\ before = [store |-> InitialStore, delivered |-> <<>>, uuid |-> 0]
    /\ req = NoRequest
    /\ resp = [status |-> 0, location |-> NONE, box |-> "none"]
    /\ nreq = 0

\* What the chain is asked about.
ChainResources == {Note("https://server.test/note/9")}

ChainActivities ==
    {ActivityOf(Single("Create"), UriRef("https://server.test/note/1"), NoRef)}

ChainAsked(c, answer) ==
    /\ call = NoCall
    /\ call' = c
    /\ decision' = answer.decision
    /\ consulted' = answer.consulted
    /\ UNCHANGED <<authorizers, authz, store, delivered, uuid, before, req, resp, nreq,
                   authnVars, storeVars, stepVars>>

ChainIsGetAuthorized ==
    \E principal \in Principals, obj \in ChainResources :
        ChainAsked([NoCall EXCEPT !.op = "get", !.principal = principal, !.resource = obj],
                   chain_is_get_authorized(authorizers, principal, obj))

ChainIsPostAuthorized ==
    \E principal \in Principals, box_type \in {"inbox", "outbox"},
       box_uri \in {P1 \o "/inbox"} :
        ChainAsked([NoCall EXCEPT !.op = "post", !.principal = principal,
                                  !.box_type = box_type, !.box_uri = box_uri],
                   chain_is_post_authorized(authorizers, principal, box_type, box_uri))

ChainIsActivityAuthorized ==
    \E principal \in Principals,
       activity \in ChainActivities :
        ChainAsked([NoCall EXCEPT !.op = "activity", !.principal = principal,
                                  !.resource = activity],
                   chain_is_activity_authorized(authorizers, principal, activity))

ChainNext == ChainIsGetAuthorized \/ ChainIsPostAuthorized \/ ChainIsActivityAuthorized

ChainSpec == ChainInit /\ [][ChainNext]_vars

\* Everything but the authenticators, at rest.
NoDispatch ==
    /\ authz = NoService
    /\ call = NoCall
    /\ decision = NoDecision
    /\ NoChain
    /\ store = InitialStore
    /\ delivered = <<>>
    /\ uuid = 0
    /\ before = [store |-> InitialStore, delivered |-> <<>>, uuid |-> 0]
    /\ req = NoRequest
    /\ resp = [status |-> 0, location |-> NONE, box |-> "none"]
    /\ nreq = 0

dispatchVars ==
    <<store, delivered, uuid, before, req, resp, nreq, authz, call, decision, chainVars>>

\* The signature round trip: a signer signs a request, the request travels,
\* changed or not, and HttpSigAuthenticator authenticates what arrives.
SigInit ==
    /\ httpRequest \in UnsignedRequests
    /\ authStore \in KeyStores
    /\ signer \in Signers
    /\ identity = NotAuthenticated
    /\ signedRequest = HttpRequest(NONE, NONE, NONE, NONE, <<>>, NONE)
    /\ changes = 0
    /\ NoDispatch
    /\ NoStores
    /\ NoSteps

Sign ==
    /\ httpRequest.signature.k = "none"
    /\ identity = NotAuthenticated
    /\ changes = 0
    /\ sign(signer, httpRequest).k = "ok"
    /\ httpRequest' = sign(signer, httpRequest).request
    /\ signedRequest' = sign(signer, httpRequest).request
    /\ UNCHANGED <<authStore, identity, signer, changes, dispatchVars, storeVars, stepVars>>

InTransit ==
    /\ httpRequest.signature.k # "none"
    /\ identity = NotAuthenticated
    /\ changes < MaxChanges
    /\ \E changed \in Changed(httpRequest) : httpRequest' = changed
    /\ changes' = changes + 1
    /\ UNCHANGED <<authStore, identity, signer, signedRequest, dispatchVars, storeVars, stepVars>>

Authenticate ==
    /\ identity = NotAuthenticated
    /\ identity' = authenticate(authStore, httpRequest)
    /\ UNCHANGED <<httpRequest, authStore, signer, signedRequest, changes, dispatchVars, storeVars, stepVars>>

SigNext == Sign \/ InTransit \/ Authenticate

SigSpec == SigInit /\ [][SigNext]_vars

\* HTTP Basic: a request is authenticated against a store.
BasicInit ==
    /\ httpRequest \in BasicRequests
    /\ authStore \in CredentialStores
    /\ identity = NotAuthenticated
    /\ signer = NoSigner
    /\ signedRequest = HttpRequest(NONE, NONE, NONE, NONE, <<>>, NONE)
    /\ changes = 0
    /\ NoDispatch
    /\ NoStores
    /\ NoSteps

BasicAuthenticate ==
    /\ identity = NotAuthenticated
    /\ identity' = basic_authenticate(authStore, httpRequest)
    /\ UNCHANGED <<httpRequest, authStore, signer, signedRequest, changes, dispatchVars, storeVars, stepVars>>

BasicNext == BasicAuthenticate

BasicSpec == BasicInit /\ [][BasicNext]_vars

\* Two partitions, a MemoryResourceStore and a SqliteResourceStore, both
\* empty at first, are given the same calls.
StoreInit ==
    /\ memory = EmptyMemory
    /\ sql = <<>>
    /\ prefixStore = NoPrefixStore
    /\ requested = <<>>
    /\ storeCall = NoStoreCall
    /\ storeResult = Results(ReturnsNone, ReturnsNone, ReturnsNone)
    /\ storeBefore = [memory |-> EmptyMemory, sql |-> <<>>, prefixStore |-> NoPrefixStore,
                      requested |-> <<>>]
    /\ ncalls = 0
    /\ NoDispatch
    /\ NoAuthn
    /\ NoSteps

StoreCalled(c, inMemory, inSql) ==
    /\ ncalls < MaxCalls
    /\ ncalls' = ncalls + 1
    /\ storeCall' = c
    /\ storeBefore' = StoreSnapshot
    /\ memory' = inMemory.contents
    /\ sql' = inSql.contents
    /\ storeResult' = Results(inMemory.result, inSql.result, ReturnsNone)
    /\ UNCHANGED <<prefixStore, requested, dispatchVars, authnVars, stepVars>>

StoreGet ==
    \E uri \in StoreUris :
        StoreCalled(StoreCall("get", uri, EmptyObject, EmptyObject, EmptyObject),
                    memory_get(memory, uri), sqlite_get(sql, uri))

StoreIsStored ==
    \E uri \in StoreUris :
        StoreCalled(StoreCall("is_stored", uri, EmptyObject, EmptyObject, EmptyObject),
                    memory_is_stored(memory, uri), sqlite_is_stored(sql, uri))

StorePut ==
    \E resource \in StoreObjects :
        StoreCalled(StoreCall("put", NONE, resource, EmptyObject, EmptyObject),
                    memory_put(memory, resource), sqlite_put(sql, resource))

StoreRemove ==
    \E uri \in StoreUris :
        StoreCalled(StoreCall("remove", uri, EmptyObject, EmptyObject, EmptyObject),
                    memory_remove(memory, uri), sqlite_remove(sql, uri))

StoreQuery ==
    \E criteria \in StoreCriteria :
        StoreCalled(StoreCall("query", NONE, EmptyObject, criteria, EmptyObject),
                    memory_query(memory, criteria), sqlite_query(sql, criteria))

StoreQueryOne ==
    \E criteria \in StoreCriteria :
        StoreCalled(StoreCall("query_one", NONE, EmptyObject, criteria, EmptyObject),
                    memory_query_one(memory, criteria), sqlite_query_one(sql, criteria))

StoreUpdate ==
    \E uri \in StoreUris, updates \in StoreUpdates :
        StoreCalled(StoreCall("update", uri, EmptyObject, EmptyObject, updates),
                    memory_update(memory, uri, updates), sqlite_update(sql, uri, updates))

StoreUpsert ==
    \E criteria \in StoreCriteria, updates \in StoreUpdates :
        StoreCalled(StoreCall("upsert", NONE, EmptyObject, criteria, updates),
                    memory_upsert(memory, criteria, updates),
                    sqlite_upsert(sql, criteria, updates))

StoreNext ==
    \/ StoreGet \/ StoreIsStored \/ StorePut \/ StoreRemove
    \/ StoreQuery \/ StoreQueryOne \/ StoreUpdate \/ StoreUpsert

StoreSpec == StoreInit /\ [][StoreNext]_vars

\* A prefix store with two tenants, its stores empty at first, and the
\* fetching store around it.
PrefixInit ==
    /\ prefixStore = PrefixAwareResourceStore([prefix \in TenantPrefixes |-> EmptyMemory],
                                              EmptyMemory, EmptyMemory)
    /\ requested = <<>>
    /\ storeCall = NoStoreCall
    /\ storeResult = Results(ReturnsNone, ReturnsNone, ReturnsNone)
    /\ storeBefore = [memory |-> EmptyMemory, sql |-> <<>>, prefixStore |-> NoPrefixStore,
                      requested |-> <<>>]
    /\ ncalls = 0
    /\ memory = EmptyMemory
    /\ sql = <<>>
    /\ NoDispatch
    /\ NoAuthn
    /\ NoSteps

PrefixCalled(c, outcome) ==
    /\ ncalls < MaxCalls
    /\ ncalls' = ncalls + 1
    /\ storeCall' = c
    /\ storeBefore' = StoreSnapshot
    /\ prefixStore' = outcome.contents
    /\ storeResult' = Results(ReturnsNone, ReturnsNone, outcome.result)
    /\ UNCHANGED <<memory, sql, dispatchVars, authnVars, stepVars>>

PrefixGet ==
    \E uri \in PrefixUris :
        /\ PrefixCalled(StoreCall("get", uri, EmptyObject, EmptyObject, EmptyObject),
                        prefix_get(prefixStore, uri))
        /\ UNCHANGED requested

PrefixIsStored ==
    \E uri \in PrefixUris :
        /\ PrefixCalled(StoreCall("is_stored", uri, EmptyObject, EmptyObject, EmptyObject),
                        prefix_is_stored(prefixStore, uri))
        /\ UNCHANGED requested

PrefixPut ==
    \E resource \in PrefixObjects :
        /\ PrefixCalled(StoreCall("put", NONE, resource, EmptyObject, EmptyObject),
                        prefix_put(prefixStore, resource))
        /\ UNCHANGED requested

PrefixRemove ==
    \E uri \in PrefixUris :
        /\ PrefixCalled(StoreCall("remove", uri, EmptyObject, EmptyObject, EmptyObject),
                        prefix_remove(prefixStore, uri))
        /\ UNCHANGED requested

PrefixUpdate ==
    \E uri \in PrefixUris, updates \in StoreUpdates :
        /\ PrefixCalled(StoreCall("update", uri, EmptyObject, EmptyObject, updates),
                        prefix_update(prefixStore, uri, updates))
        /\ UNCHANGED requested

\* get on the fetching store, whose transport answers as it may
FetchGet ==
    \E uri \in PrefixUris, transport \in Transports :
        /\ PrefixCalled([StoreCall("fetch.get", uri, EmptyObject, EmptyObject, EmptyObject)
                            EXCEPT !.transport = transport],
                        fetch_get(prefixStore, transport, requested, uri))
        /\ requested' = fetch_get(prefixStore, transport, requested, uri).requested

PrefixNext ==
    \/ PrefixGet \/ PrefixIsStored \/ PrefixPut \/ PrefixRemove \/ PrefixUpdate
    \/ FetchGet

PrefixSpec == PrefixInit /\ [][PrefixNext]_vars

-----------------------------------------------------------------------------
(* What the claims speak of, read off the last request and its response    *)

\* The owner of the box the last request was dispatched to.
Owner == before.store[before.store[Str(req.url)].attributedTo]

\* The posted activity, with the id the store gave it if it came without one.
Posted == WithId(before, req.activity)

InboxPost == req.method = "POST" /\ resp.box = "inbox"

OutboxPost == req.method = "POST" /\ resp.box = "outbox"

Accepted == resp.status = 200

Unchanged(uri) ==
    (uri \in DOMAIN store) = (uri \in DOMAIN before.store)
    /\ (uri \in DOMAIN store => store[uri] = before.store[uri])

\* The activities delivered by the last request.
Delivery == SubSeq(delivered, Len(before.delivered) + 1, Len(delivered))

NewIds == DOMAIN store \ DOMAIN before.store

-----------------------------------------------------------------------------
\* C1: an inbox Follow whose actor is the authenticated principal, whose
\* object is the box owner and whose actor is not the box owner, posted while
\* the owner's inbox, outbox and followers collections exist, returns 200 and
\* leaves the Follow stored with its id in the inbox's orderedItems, the
\* follower in the owner's followers, and an Accept (actor the owner, to the
\* follower, object the Follow) stored with its id in the outbox's
\* orderedItems.
C1_Case ==
    /\ InboxPost
    /\ has_value(req.activity, "type", "Follow")
    /\ req.activity.actor = req.auth
    /\ req.activity.object = UriRef(Owner.id)
    /\ req.activity.actor # Owner.id
    /\ {Owner.inbox, Owner.outbox, Owner.followers} \subseteq DOMAIN before.store

IsAcceptOf(accept, follow, owner) ==
    /\ accept.type = "Accept"
    /\ accept.actor = owner.id
    /\ accept.to = follow.actor
    /\ accept.object = Embed(follow)

C1_FollowAccepted ==
    C1_Case =>
        /\ Accepted
        /\ Posted.id \in DOMAIN store /\ store[Posted.id] = Posted
        /\ IsIn(Posted.id, store[Owner.inbox].orderedItems)
        /\ IsIn(Posted.actor, store[Owner.followers].items)
        /\ \E id \in DOMAIN store :
              /\ IsAcceptOf(store[id], Posted, Owner)
              /\ IsIn(id, store[Owner.outbox].orderedItems)

\* A Follow by a second follower was accepted.
C1_Witness ==
    /\ C1_Case /\ Accepted
    /\ before.store[Owner.followers].items # <<>>
    /\ ~IsIn(req.activity.actor, before.store[Owner.followers].items)

-----------------------------------------------------------------------------
\* C2: every accepted outbox POST, of whatever activity type, leaves the
\* normalized activity stored under its assigned id, that id at index 0 of
\* the owner's outbox orderedItems, the activity delivered, and answers 200
\* with Location the activity id; so every URI an outbox lists dereferences
\* to a stored document.
C2_OutboxPublish ==
    (OutboxPost /\ Accepted) =>
        /\ resp.location = normalized(before, req, Owner).id
        /\ resp.location \in DOMAIN store
        /\ store[resp.location].type = req.activity.type
        /\ store[Owner.outbox].orderedItems[1] = resp.location
        /\ \E i \in 1..Len(Delivery) : Delivery[i].id = resp.location
        /\ \A i \in 1..Len(store[Owner.outbox].orderedItems) :
              store[Owner.outbox].orderedItems[i] \in DOMAIN store

-----------------------------------------------------------------------------
\* C3: an outbox Create with an embedded object, whether or not the client
\* gave that object an id, is accepted; the object is stored under the id
\* {actor}/{lowercased type}/{uuid} with attributedTo the actor, and the
\* Create's object field is that same id.
C3_Case ==
    /\ OutboxPost
    /\ has_value(req.activity, "type", "Create")
    /\ IsMapping(req.activity.object)

C3_Actor == IF req.activity.actor = NONE THEN Owner.id ELSE req.activity.actor

C3_OutboxCreateObject ==
    C3_Case =>
        /\ Accepted
        /\ \E id \in NewIds :
              /\ \E n \in 1..uuid :
                    id = C3_Actor \o "/" \o lower(req.activity.object.type)
                             \o "/" \o Uuid4(n)
              /\ store[id].type = req.activity.object.type
              /\ store[id].attributedTo = C3_Actor
              /\ \E i \in 1..Len(Delivery) :
                    Delivery[i].type = "Create" /\ Delivery[i].object = UriRef(id)

-----------------------------------------------------------------------------
\* C4: after an accepted inbox Undo of a Follow of the box owner, sent by
\* the actor that followed, that actor is absent from the owner's followers;
\* and an accepted Follow directly followed by its accepted Undo leaves the
\* list of followers as it was before the Follow.
C4_UndoCase ==
    /\ InboxPost /\ Accepted
    /\ has_value(req.activity, "type", "Undo")
    /\ resource_get(req.activity, "type") = "Follow"
    /\ resource_get(req.activity, "object") = Owner.id
    /\ req.activity.actor = req.auth

C4_Absent ==
    C4_UndoCase => ~IsIn(req.activity.actor, store[Owner.followers].items)

C4_FollowCase == InboxPost /\ Accepted /\ has_value(req.activity, "type", "Follow")

\* This step is the Undo of the Follow that the last request was.
C4_FollowThenUndo ==
    /\ C4_FollowCase
    /\ C4_UndoCase'
    /\ req'.activity.actor = req.activity.actor
    /\ Owner' = Owner

C4_Restored == store'[Owner.followers].items = before.store[Owner.followers].items

\* The claim as stated: whatever the followers were before the Follow.
C4_UndoFollow ==
    []C4_Absent /\ [][C4_FollowThenUndo => C4_Restored]_vars

\* The claim as amended: the round trip holds when the actor was not a
\* follower before the Follow.
C4_UndoFollowOfNewFollower ==
    /\ []C4_Absent
    /\ [][(C4_FollowThenUndo
            /\ ~IsIn(req.activity.actor, before.store[Owner.followers].items))
          => C4_Restored]_vars

\* An Undo was accepted right after the actor's Follow was received, while
\* another follower stays.
C4_Witness ==
    /\ C4_UndoCase
    /\ IsIn(req.activity.actor, before.store[Owner.followers].items)
    /\ store[Owner.followers].items # <<>>
    /\ LET received == before.store[Owner.inbox].orderedItems
       IN  /\ received # <<>>
           /\ before.store[received[1]].type = "Follow"
           /\ before.store[received[1]].actor = req.activity.actor

-----------------------------------------------------------------------------
\* C5: after an accepted inbox Like by the authenticated principal on a
\* stored object, the actor is in the object's likes collection; after an
\* accepted Undo of that Like by the actor, the actor is absent from it; and
\* an accepted Like directly followed by its accepted Undo leaves the list
\* of likes as it was before the Like.
C5_LikeCase ==
    /\ InboxPost /\ Accepted
    /\ has_value(req.activity, "type", "Like")
    /\ req.activity.actor = req.auth

C5_UndoCase ==
    /\ InboxPost /\ Accepted
    /\ has_value(req.activity, "type", "Undo")
    /\ resource_get(req.activity, "type") = "Like"
    /\ req.activity.actor = req.auth

C5_LikesOf(s, object_uri) == s[s[object_uri].likes].items

C5_Member ==
    C5_LikeCase =>
        IsIn(req.activity.actor, C5_LikesOf(store, req.activity.object.id))

C5_Absent ==
    C5_UndoCase =>
        ~IsIn(req.activity.actor, C5_LikesOf(store, req.activity.object.object))

C5_LikeThenUndo ==
    /\ C5_LikeCase
    /\ C5_UndoCase'
    /\ req'.activity.actor = req.activity.actor
    /\ req'.activity.object.object = req.activity.object.id

C5_Restored ==
    C5_LikesOf(store', req.activity.object.id)
        = C5_LikesOf(before.store, req.activity.object.id)

\* The claim as stated: whatever the likes were before the Like.
C5_LikeUndoLike ==
    []C5_Member /\ []C5_Absent /\ [][C5_LikeThenUndo => C5_Restored]_vars

\* The claim as amended: the round trip holds when the actor had not liked
\* the object before the Like.
C5_LikeUndoFirstLike ==
    /\ []C5_Member
    /\ []C5_Absent
    /\ [][(C5_LikeThenUndo
            /\ ~IsIn(req.activity.actor,
                     C5_LikesOf(before.store, req.activity.object.id)))
          => C5_Restored]_vars

\* An Undo was accepted right after the actor's Like was received, while
\* another actor's like stays.
C5_Witness ==
    /\ C5_UndoCase
    /\ IsIn(req.activity.actor, C5_LikesOf(before.store, req.activity.object.object))
    /\ C5_LikesOf(store, req.activity.object.object) # <<>>
    /\ LET received == before.store[Owner.inbox].orderedItems
       IN  /\ received # <<>>
           /\ before.store[received[1]].type = "Like"
           /\ before.store[received[1]].actor = req.activity.actor

-----------------------------------------------------------------------------
\* C6: after an inbox Create with an embedded object returns 200, the
\* embedded object is stored separately under its own id, the stored
\* Create's object field is that id (a URI, not the embedded document), and
\* the Create's id is in the inbox orderedItems.
C6_Case ==
    /\ InboxPost /\ Accepted
    /\ has_value(req.activity, "type", "Create")
    /\ IsMapping(req.activity.object)

C6_InboxCreateObject ==
    C6_Case =>
        LET object_id == req.activity.object.id
        IN  /\ object_id # Posted.id
            /\ object_id \in DOMAIN store
            /\ store[object_id].id = object_id
            /\ store[object_id].type = req.activity.object.type
            /\ Posted.id \in DOMAIN store
            /\ store[Posted.id].type = "Create"
            /\ store[Posted.id].object = UriRef(object_id)
            /\ IsIn(Posted.id, store[Owner.inbox].orderedItems)

\* A Create with an embedded object was accepted into a non-empty inbox.
C6_Witness ==
    /\ C6_Case
    /\ before.store[Owner.inbox].orderedItems # <<>>
    /\ req.activity.object.id \notin DOMAIN before.store

-----------------------------------------------------------------------------
\* C7: every inbox POST that returns 200 leaves the activity stored under
\* its id and its id at index 0 of the owner's inbox orderedItems.
C7_Case == InboxPost /\ Accepted

\* The stored document is the posted activity; its object may have been
\* replaced by the object's URI.
C7_Stored ==
    /\ Posted.id \in DOMAIN store
    /\ [store[Posted.id] EXCEPT !.object = NoRef] = [Posted EXCEPT !.object = NoRef]

\* The claim as stated.
C7_InboxPrepended ==
    C7_Case =>
        /\ C7_Stored
        /\ store[Owner.inbox].orderedItems # <<>>
        /\ store[Owner.inbox].orderedItems[1] = Posted.id

\* The claim as amended: the id is listed in the inbox; it is put at index 0
\* when the inbox did not list it yet, and the inbox is left as it was when
\* it did (the activity was received before).
C7_InboxListed ==
    C7_Case =>
        LET old == before.store[Owner.inbox].orderedItems
            new == store[Owner.inbox].orderedItems
        IN  /\ C7_Stored
            /\ IsIn(Posted.id, new)
            /\ ~IsIn(Posted.id, old) => new = <<Posted.id>> \o old
            /\ IsIn(Posted.id, old) => new = old

\* An accepted activity that the inbox already listed, behind a later one.
C7_Witness ==
    /\ C7_Case
    /\ IsIn(Posted.id, before.store[Owner.inbox].orderedItems)
    /\ store[Owner.inbox].orderedItems[1] # Posted.id

-----------------------------------------------------------------------------
\* C8: inserting URI u into an OrderedCollection puts u at index 0 of
\* orderedItems with the previous items behind it in their order; inserting
\* a URI that is already a member leaves the collection as it was.  Every
\* POST dispatched to the inbox inserts the activity id into the inbox,
\* every accepted outbox POST inserts the assigned id into the outbox.
C8_Inserted(collection_uri, u) ==
    LET old == before.store[collection_uri].orderedItems
        new == store[collection_uri].orderedItems
    IN  /\ before.store[collection_uri].type = "OrderedCollection"
        /\ IF IsIn(u, old) THEN store[collection_uri] = before.store[collection_uri]
           ELSE new = <<u>> \o old

C8_OrderedInsertion ==
    /\ InboxPost => C8_Inserted(Owner.inbox, Posted.id)
    /\ (OutboxPost /\ Accepted) => C8_Inserted(Owner.outbox, resp.location)

\* An insertion of a member into a collection of two or more.
C8_Witness ==
    /\ InboxPost
    /\ IsIn(Posted.id, before.store[Owner.inbox].orderedItems)
    /\ Len(before.store[Owner.inbox].orderedItems) >= 2

-----------------------------------------------------------------------------
\* C9: a POST reaches an inbox or outbox handler only if the request is
\* authenticated, the target URL dereferences to a stored OrderedCollection
\* with a string attributedTo naming a stored actor, and the URL is that
\* actor's inbox or outbox; otherwise an unauthenticated POST fails with
\* 403, any other one with 400, the store is unchanged and nothing is
\* delivered.
C9_Guard ==
    /\ req.auth # NONE
    /\ Str(req.url) \in DOMAIN before.store
    /\ LET target == before.store[Str(req.url)]
       IN  /\ target.type = "OrderedCollection"
           /\ target.attributedTo # NONE
           /\ target.attributedTo \in DOMAIN before.store
           /\ Str(req.url) \in {before.store[target.attributedTo].inbox,
                                before.store[target.attributedTo].outbox}

C9_PostGuard ==
    req.method = "POST" =>
        /\ resp.box # "none" => C9_Guard
        /\ ~C9_Guard =>
              /\ resp.status = IF req.auth = NONE THEN 403 ELSE 400
              /\ store = before.store
              /\ delivered = before.delivered

\* An authenticated POST to a stored OrderedCollection of the owner that is
\* neither the inbox nor the outbox, after the store has changed.
C9_Witness ==
    /\ req.method = "POST" /\ req.auth # NONE /\ ~C9_Guard
    /\ Str(req.url) \in DOMAIN before.store
    /\ before.store[Str(req.url)].type = "OrderedCollection"
    /\ before.store[Str(req.url)].attributedTo \in DOMAIN before.store
    /\ before.store # InitialStore

-----------------------------------------------------------------------------
\* C10: an inbox Follow is rejected when its actor is not the authenticated
\* principal, rejected with 400 when its object is not the box owner's id,
\* and rejected with 400 when its actor is the box owner, the checks being
\* made in this order; whenever a Follow is rejected the owner's followers
\* collection and outbox are unchanged and no Accept is stored or delivered.
C10_Case == InboxPost /\ has_value(req.activity, "type", "Follow")

C10_WrongActor == req.activity.actor # req.auth

C10_WrongObject == req.activity.object # NoRef /\ req.activity.object.id # Owner.id

C10_SelfFollow == req.activity.actor = Owner.id

C10_NoEffect ==
    /\ Unchanged(Owner.followers)
    /\ Unchanged(Owner.outbox)
    /\ \A id \in NewIds : store[id].type # "Accept"
    /\ Delivery = <<>>

C10_FollowValidation ==
    C10_Case =>
        /\ C10_WrongActor => ~Accepted
        /\ (~C10_WrongActor /\ C10_WrongObject) => resp.status = 400
        /\ (~C10_WrongActor /\ req.activity.object = UriRef(Owner.id) /\ C10_SelfFollow)
              => resp.status = 400
        /\ ~Accepted => C10_NoEffect

\* A Follow of something else than the owner, by its own actor, while the
\* owner has a follower.
C10_Witness ==
    /\ C10_Case /\ ~C10_WrongActor /\ C10_WrongObject
    /\ before.store[Owner.followers].items # <<>>

-----------------------------------------------------------------------------
\* C11: an inbox Undo whose embedded activity is missing (the Undo has no
\* object, or its object carries no activity type) returns 200 rather than
\* failing.
C11_Case ==
    /\ InboxPost
    /\ has_value(req.activity, "type", "Undo")
    /\ resource_get(req.activity, "type") = NONE

-----------------------------------------------------------------------------
(* What the claims about the authorization engine speak of, read off the   *)
(* service, the last call and its decision                                 *)

GetCall == call.op = "get"

PostCall == call.op = "post"

ActivityCall == call.op = "activity"

NoPrincipal == call.principal.uri = NONE

Authorized == decision.raised = NONE /\ decision.authorized

DeniedWith(status) ==
    decision.raised = NONE /\ ~decision.authorized /\ decision.status_code = status

\* The URIs a key of a document holds.
Values(v) == {v.v[i] : i \in 1..Len(v.v)}

PublicUris == {"https://www.w3.org/ns/activitystreams#Public", "as:Public", "Public"}

PubliclyAddressed(r) ==
    \E key \in {"to", "cc", "bto", "bcc", "audience"} : Values(r[key]) \cap PublicUris # {}

StoredActors == {d \in {authz.store[id] : id \in DOMAIN authz.store} :
                    Values(d.type) \cap AS2_ACTOR_TYPES # {}}

IsActorObject(r) == Values(r.type) \cap AS2_ACTOR_TYPES # {}

OutboxOwners(r) == {d.id : d \in {a \in StoredActors : r.id \in Values(a.outbox)}}

InboxOwners(r) == {d.id : d \in {a \in StoredActors : r.id \in Values(a.inbox)}}

-----------------------------------------------------------------------------
\* C12: with no principal, is_get_authorized authorizes a resource that
\* carries any of the three public URIs in to, cc, bto, bcc or audience, and
\* does not authorize any resource that is not publicly addressed.
C12_Case == GetCall /\ NoPrincipal

\* The claim as stated.
C12_AnonymousGet ==
    C12_Case => (Authorized <=> PubliclyAddressed(call.resource))

\* The claim as amended: a resource that is not publicly addressed is
\* authorized exactly when it is an actor object or the outbox of an actor.
C12_AnonymousGetPublicActorOutbox ==
    C12_Case =>
        /\ PubliclyAddressed(call.resource) => Authorized
        /\ ~PubliclyAddressed(call.resource) =>
              (Authorized <=> (IsActorObject(call.resource)
                                \/ OutboxOwners(call.resource) # {}))

\* An anonymous GET of an inbox that is addressed to the public in audience.
C12_Witness ==
    /\ C12_Case /\ Authorized
    /\ InboxOwners(call.resource) # {}
    /\ "Public" \in Values(call.resource.audience)

-----------------------------------------------------------------------------
\* C13: for a resource that is not publicly addressed and is the inbox of
\* some actor, is_get_authorized authorizes only when the principal is that
\* actor; an anonymous request is denied with status 401 and any other
\* authenticated principal is denied with status 403.
C13_Case ==
    /\ GetCall
    /\ ~PubliclyAddressed(call.resource)
    /\ InboxOwners(call.resource) # {}

C13_InboxRead ==
    C13_Case =>
        /\ Authorized => call.principal.uri \in InboxOwners(call.resource)
        /\ NoPrincipal => DeniedWith(401)
        /\ (~NoPrincipal /\ call.principal.uri \notin InboxOwners(call.resource))
              => DeniedWith(403)

-----------------------------------------------------------------------------
\* C14: if the tenant's firm:Blocks document lists the principal URI's
\* hostname in firm:blockedDomain or the principal URI in firm:blockedActor,
\* then is_get_authorized, and is_post_authorized for an inbox, deny with
\* status 403 and a reason that says "blocked", whatever allow rule would
\* otherwise apply.
TenantBlocks ==
    {d \in {authz.store[id] : id \in DOMAIN authz.store} :
        "firm:Blocks" \in Values(d.type) /\ authz.prefix \in Values(d.attributedTo)}

Blocked(uri) ==
    \E b \in TenantBlocks :
        hostname(uri) \in Values(b.blockedDomain) \/ uri \in Values(b.blockedActor)

BlockedReasons == {"inbox post is blocked for domain", "inbox post is blocked for actor"}

C14_Case ==
    /\ GetCall \/ (PostCall /\ call.box_type = "inbox")
    /\ ~NoPrincipal
    /\ Blocked(call.principal.uri)

C14_BlockListFirst ==
    C14_Case => (DeniedWith(403) /\ decision.reason \in BlockedReasons)

\* A principal blocked by its domain asks for a publicly addressed resource.
C14_Witness ==
    /\ C14_Case /\ GetCall /\ DeniedWith(403)
    /\ PubliclyAddressed(call.resource)
    /\ \E b \in TenantBlocks : hostname(call.principal.uri) \in Values(b.blockedDomain)

-----------------------------------------------------------------------------
\* C15: is_post_authorized denies with status 401 when there is no
\* principal; for box type inbox it authorizes every authenticated principal
\* that is not blocked, whichever inbox it is; for box type outbox it
\* authorizes the principal if and only if box_uri is the principal's own
\* outbox, and denies with status 403 otherwise.
C15_OwnOutbox == call.box_uri \in Values(call.principal.actor.outbox)

C15_PostAuthorization ==
    PostCall =>
        /\ NoPrincipal => DeniedWith(401)
        /\ (~NoPrincipal /\ call.box_type = "inbox" /\ ~Blocked(call.principal.uri))
              => Authorized
        /\ (~NoPrincipal /\ call.box_type = "outbox") =>
              /\ Authorized <=> C15_OwnOutbox
              /\ ~C15_OwnOutbox => DeniedWith(403)

\* A principal posts to the outbox of another actor while the tenant's
\* block list names that other actor.
C15_Witness ==
    /\ PostCall /\ ~NoPrincipal /\ call.box_type = "outbox"
    /\ ~C15_OwnOutbox /\ DeniedWith(403)
    /\ \E a \in StoredActors : call.box_uri \in Values(a.outbox) /\ Blocked(a.id)

-----------------------------------------------------------------------------
\* C16: is_activity_authorized authorizes an Update or a Delete only if its
\* object exists in the store and is attributedTo the principal; in every
\* other case (object not named, object not stored, object attributed to
\* someone else, no principal) the activity is not authorized.
C16_Case ==
    /\ ActivityCall
    /\ Values(call.resource.type) \cap {"Update", "Delete"} # {}

C16_ObjectOfPrincipal ==
    /\ ~NoPrincipal
    /\ call.resource.object.k # "none"
    /\ call.resource.object.id \in DOMAIN authz.store
    /\ call.principal.uri \in Values(authz.store[call.resource.object.id].attributedTo)

C16_UpdateDelete == C16_Case => (Authorized => C16_ObjectOfPrincipal)

-----------------------------------------------------------------------------
\* C17: is_activity_authorized authorizes an Undo when the undone activity
\* is a Follow, Like or Announce whose actor equals the principal,
\* authorizes it (permissively) when the Undo has no object or the undone
\* activity has no actor field, and denies it when the undone activity's
\* actor differs from the principal.
C17_Case == ActivityCall /\ call.resource.type = Single("Undo")

C17_Object == call.resource.object

C17_Stored == C17_Object.id \in DOMAIN authz.store

\* The activity the Undo's object stands for: the embedded one, or the
\* stored one that a URI names.
C17_Undone ==
    IF C17_Object.k = "doc"
    THEN [known |-> TRUE, type |-> C17_Object.type, actor |-> C17_Object.actor]
    ELSE IF C17_Object.k = "uri" /\ C17_Stored
    THEN [known |-> TRUE,
          type |-> get_id(authz.store[C17_Object.id].type),
          actor |-> get_id(authz.store[C17_Object.id].actor)]
    ELSE [known |-> FALSE, type |-> NONE, actor |-> NONE]

\* The claim as stated.
C17_Undo ==
    C17_Case =>
        /\ (/\ C17_Undone.known /\ ~NoPrincipal
            /\ C17_Undone.type \in {"Follow", "Like", "Announce"}
            /\ C17_Undone.actor = call.principal.uri) => Authorized
        /\ (C17_Object.k = "none" \/ (C17_Undone.known /\ C17_Undone.actor = NONE))
              => Authorized
        /\ (/\ C17_Undone.known /\ C17_Undone.actor # NONE
            /\ C17_Undone.actor # call.principal.uri) => ~Authorized

\* The stored Follow, Like or Announce that the Undo's object names by id.
C17_StoredUndone ==
    /\ C17_Object.k # "none" /\ C17_Stored
    /\ Values(authz.store[C17_Object.id].type) \cap {"Follow", "Like", "Announce"} # {}

\* The claim as amended: the undone activity is the stored document under
\* the id of the Undo's object, if it is a Follow, Like or Announce.
C17_UndoOfStored ==
    C17_Case =>
        /\ C17_Object.k = "none" => Authorized
        /\ (C17_Object.k # "none" /\ C17_Object.id # NONE) =>
              (Authorized <=>
                  /\ C17_StoredUndone
                  /\ \/ authz.store[C17_Object.id].actor = Absent
                     \/ /\ ~NoPrincipal
                        /\ authz.store[C17_Object.id].actor = Single(call.principal.uri))
        /\ ~Authorized => (decision.raised # NONE \/ DeniedWith(403))

\* The actor of a stored Follow undoes it with an Undo that embeds the Follow.
C17_Witness ==
    /\ C17_Case /\ Authorized /\ ~NoPrincipal
    /\ C17_Object.k = "doc" /\ C17_StoredUndone
    /\ authz.store[C17_Object.id].actor = Single(call.principal.uri)

-----------------------------------------------------------------------------
\* C18: for an Add or a Remove, a missing object or a missing target yields
\* a denial with status 400; otherwise the activity is authorized if and
\* only if there is a principal, the target is stored, and the target is
\* publicly addressed, or attributedTo the principal, or one of the
\* principal's own followers, following, liked or shares collections;
\* otherwise it is denied with status 403.
C18_Case ==
    /\ ActivityCall
    /\ call.resource.type \in {Single("Add"), Single("Remove")}

C18_OwnCollections ==
    UNION {Values(call.principal.actor[key]) :
              key \in {"followers", "following", "liked", "shares"}}

C18_Allowed ==
    /\ ~NoPrincipal
    /\ call.resource.target.id \in DOMAIN authz.store
    /\ LET target == authz.store[call.resource.target.id]
       IN  \/ PubliclyAddressed(target)
           \/ call.principal.uri \in Values(target.attributedTo)
           \/ target.id \in C18_OwnCollections

C18_AddRemove ==
    C18_Case =>
        IF call.resource.object.k = "none" \/ call.resource.target.k = "none"
        THEN DeniedWith(400)
        ELSE /\ Authorized <=> C18_Allowed
             /\ ~C18_Allowed => DeniedWith(403)

\* A principal adds to its own followers collection, which is neither
\* public nor attributed to it.
C18_Witness ==
    /\ C18_Case /\ Authorized
    /\ call.resource.target.id \in C18_OwnCollections
    /\ ~PubliclyAddressed(authz.store[call.resource.target.id])
    /\ authz.store[call.resource.target.id].attributedTo = Absent

-----------------------------------------------------------------------------
\* C19: for an activity whose type is none of the enumerated ones, the
\* result of is_activity_authorized is exactly the decision of the next
\* authorizer when one is configured; when none is configured the activity
\* is wrapped as Create{object: activity} and evaluated exactly once more,
\* and it is authorized if and only if that wrapped evaluation is.
EnumeratedTypes ==
    {"Add", "Remove", "Announce", "Like", "Follow", "Accept", "Reject", "Create",
     "Block", "Undo", "Update", "Delete"}

C19_Case ==
    /\ ActivityCall
    /\ Values(call.resource.type) \cap EnumeratedTypes = {}

C19_Wrapped ==
    [Resource(NONE, Single("Create")) EXCEPT
        !.object = DocRef(call.resource.id, get_id(call.resource.type), NONE, NONE)]

C19_UnknownType ==
    C19_Case =>
        IF authz.next_auth.configured
        THEN decision = authz.next_auth.decision
        ELSE /\ decision.calls = 2
             /\ decision.raised = NONE
             /\ decision.authorized
                   = is_activity_authorized(authz, call.principal, C19_Wrapped).authorized

\* An activity without a type, asked about without a principal and with no
\* next authorizer, is authorized after the nested evaluation.
C19_Witness ==
    /\ C19_Case /\ ~authz.next_auth.configured
    /\ call.resource.type = Absent /\ NoPrincipal
    /\ Authorized /\ decision.calls = 2

-----------------------------------------------------------------------------
\* C20: for a resource that is not public, not an actor object and not an
\* inbox or outbox, is_get_authorized authorizes an authenticated principal
\* that is not blocked if and only if it is listed in a recipient field (to,
\* cc, bto, bcc, audience), or the resource is attributedTo it, or it is the
\* activity's actor; otherwise the denial has status 403, and with no
\* principal the denial has status 401.
C20_Case ==
    /\ GetCall
    /\ ~PubliclyAddressed(call.resource)
    /\ ~IsActorObject(call.resource)
    /\ InboxOwners(call.resource) = {}
    /\ OutboxOwners(call.resource) = {}

C20_Recipients ==
    UNION {Values(call.resource[key]) : key \in {"to", "cc", "bto", "bcc", "audience"}}

C20_Allowed ==
    \/ call.principal.uri \in C20_Recipients
    \/ call.principal.uri \in Values(call.resource.attributedTo)
    \/ call.principal.uri \in Values(call.resource.actor)

C20_FallThrough ==
    C20_Case =>
        /\ NoPrincipal => DeniedWith(401)
        /\ (~NoPrincipal /\ ~Blocked(call.principal.uri)) =>
              /\ Authorized <=> C20_Allowed
              /\ ~C20_Allowed => DeniedWith(403)

\* A principal that is only a bcc recipient of another actor's activity,
\* while the tenant has a block list that does not name it.
C20_Witness ==
    /\ C20_Case /\ ~NoPrincipal /\ Authorized
    /\ TenantBlocks # {}
    /\ call.principal.uri \in Values(call.resource.bcc)
    /\ call.principal.uri \notin Values(call.resource.actor)
    /\ call.resource.actor # Absent

-----------------------------------------------------------------------------
(* The authorization chain, under ChainSpec *)

\* The chain has been asked a question.
ChainCall == call # NoCall /\ call.op \in {"get", "post", "activity"}

\* Authorizer i authorizes what the chain was asked.
Allows(i) == authorizers[i][call.op]

\* Authorizer i is the first in list order to authorize it.
FirstToAllow(i) == Allows(i) /\ \A j \in 1..(i - 1) : ~Allows(j)

\* C21: whichever of the three entry points is called, the chain returns the
\* decision of the first authorizer in list order that authorizes, having
\* consulted the authorizers before it and that one, in order, with the
\* arguments it was given, and no later one; when no authorizer authorizes,
\* and when the list is empty, it returns a denial.
C21_FirstAuthorized ==
    ChainCall =>
        /\ \A i \in 1..Len(authorizers) :
               FirstToAllow(i) =>
                   /\ Authorized
                   /\ decision.reason = authorizers[i].name
                   /\ Len(consulted) = i
                   /\ \A k \in 1..i : consulted[k] = Consulted(k, call)
        /\ (\A i \in 1..Len(authorizers) : ~Allows(i)) =>
               /\ decision.raised = NONE
               /\ ~decision.authorized

\* A chain of three whose first authorizer denies and whose second and third,
\* of different names, authorize: the second's decision is the answer and
\* the third was not consulted.
C21_Witness ==
    /\ ChainCall
    /\ call.op = "post"
    /\ Len(authorizers) = 3
    /\ ~Allows(1) /\ Allows(2) /\ Allows(3)
    /\ authorizers[2].name # authorizers[3].name
    /\ Authorized
    /\ decision.reason = authorizers[2].name
    /\ Len(consulted) = 2

-----------------------------------------------------------------------------
(* The signature round trip, under SigSpec *)

\* The request was signed and what arrived has been authenticated.
SignedThenVerified == signedRequest.signature.k # "none" /\ identity # NotAuthenticated

\* The header names the Signature header lists.
Listed(name) == IsIn(name, signedRequest.signature.headers)

\* A listed header is no longer in the request.
SignedHeaderMissing ==
    \E n \in {"host", "date", "digest"} : Listed(n) /\ n \notin DOMAIN httpRequest.headers

\* A part of the signing string is not what it was when the request was
\* signed: the method or the path, if the request target is listed, or a
\* listed header.
SignedComponentChanged ==
    \/ /\ Listed("(request-target)")
       /\ \/ httpRequest.method # signedRequest.method
          \/ httpRequest.url.path # signedRequest.url.path
    \/ \E n \in {"host", "date", "digest"} :
           /\ Listed(n)
           /\ n \in DOMAIN httpRequest.headers => httpRequest.headers[n] # signedRequest.headers[n]

\* The key the store publishes for the signer's key id: the document stored
\* under the key id (its publicKey object if it has one), else the publicKey
\* object of the actor the key id is a fragment of.
VerifyingKey ==
    IF signer.key_id \in DOMAIN authStore
    THEN IF authStore[signer.key_id].publicKey.k # "absent"
         THEN authStore[signer.key_id].publicKey
         ELSE IF authStore[signer.key_id].publicKeyPem # NONE
         THEN KeyObject(authStore[signer.key_id].owner, authStore[signer.key_id].publicKeyPem)
         ELSE NoKey
    ELSE IF SigActor \in DOMAIN authStore THEN authStore[SigActor].publicKey
    ELSE NoKey

KeyPairMatches ==
    VerifyingKey.k = "map" /\ VerifyingKey.publicKeyPem = public_key(signer.private_key)

\* C22: a request is signed and then verified.  The verification yields a
\* principal only if the verifying public key is the one of the signing
\* private key and no part of the signing string (the method and the path
\* of the request target, the listed headers) has changed since the signing,
\* and the principal is then the owner of the key; when the keys match and
\* nothing signed has changed, the owner of the key, who is in the store, is
\* what it yields.  A request with a signed component changed yields no
\* identity: None where every listed header is still there and the key was
\* found.
C22_RoundTrip ==
    SignedThenVerified =>
        /\ (KeyPairMatches /\ ~SignedComponentChanged /\ VerifyingKey.owner \in DOMAIN authStore)
               => identity = Identity(VerifyingKey.owner)
        /\ identity.k = "identity"
               => /\ KeyPairMatches
                  /\ ~SignedComponentChanged
                  /\ identity.uri = VerifyingKey.owner
        /\ (SignedComponentChanged /\ ~SignedHeaderMissing /\ VerifyingKey.k = "map")
               => identity = NoIdentity

\* A request with a body, signed with the default headers (the digest among
\* them) and verified as it was signed, under the matching key.
C22_Witness ==
    /\ SignedThenVerified
    /\ Listed("(request-target)") /\ Listed("host") /\ Listed("date") /\ Listed("digest")
    /\ KeyPairMatches
    /\ ~SignedComponentChanged
    /\ httpRequest.url.query # signedRequest.url.query
    /\ identity = Identity(SigActor)

-----------------------------------------------------------------------------
(* HTTP Basic, under BasicSpec *)

\* A request with "Authorization: Basic <credentials>" has been authenticated.
BasicAsked ==
    /\ identity # NotAuthenticated
    /\ httpRequest.authorization.k = "str"
    /\ httpRequest.authorization.tokens = 2
    /\ httpRequest.authorization.scheme \in {"Basic", "basic"}

\* The credentials decode to a string, and the string has a colon.
Decoded == httpRequest.authorization.credentials.segments

WellFormed == httpRequest.authorization.credentials.k = "b64" /\ Len(Decoded) >= 2

\* What precedes the last colon, and what follows it.
ClaimedActor == Join(SubSeq(Decoded, 1, Len(Decoded) - 1), ":")

ClaimedPassword == Decoded[Len(Decoded)]

\* A firm:Credentials document attributed to the actor URI exists and its
\* firm:password verifies the password.
CredentialVerifies ==
    \E id \in DOMAIN authStore :
        /\ authStore[id].type = "firm:Credentials"
        /\ authStore[id].attributedTo = ClaimedActor
        /\ authStore[id].password = hash_password(ClaimedPassword)

\* C23: HTTP Basic splits the decoded credentials on the last ':' into actor
\* URI and password; the result is the actor as principal exactly when a
\* firm:Credentials document attributed to that actor URI exists and its
\* firm:password verifies the password, and no identity otherwise; credentials
\* that cannot be decoded, or that decode to a string without ':', raise
\* AuthenticationError.
C23_BasicAuthentication ==
    BasicAsked =>
        /\ ~WellFormed => identity = AuthnRaised("AuthenticationError")
        /\ WellFormed =>
               /\ identity = Identity(ClaimedActor) <=> CredentialVerifies
               /\ ~CredentialVerifies => identity = NoIdentity

-----------------------------------------------------------------------------
(* What the claims about the stores speak of, read off the last call on    *)
(* the two partitions                                                      *)

\* The object a put was given, as put left it: under the URI it is stored by.
PutObject(uri) == [storeCall.resource EXCEPT !["id"] = Single(uri)]

\* The URI the memory partition stored the object of the last put under: its
\* id, or for an object without one a URI nothing was stored under before.
PutUri(uri) ==
    IF has_key(storeCall.resource, "id") THEN uri = str_id(storeCall.resource)
    ELSE uri \notin DOMAIN storeBefore.memory.objects

PutInMemory ==
    \E uri \in DOMAIN memory.objects :
        /\ PutUri(uri)
        /\ memory_get(memory, uri).result = ReturnsObject(PutObject(uri))
        /\ memory_is_stored(memory, uri).result = ReturnsBool(TRUE)

PutInSql ==
    storeResult.sql.k # "raise" =>
        /\ sqlite_get(sql, str_id(storeCall.resource)).result
               = ReturnsObject(storeCall.resource)
        /\ sqlite_is_stored(sql, str_id(storeCall.resource)).result = ReturnsBool(TRUE)

RemovedFromMemory ==
    /\ memory_get(memory, storeCall.uri).result = ReturnsNone
    /\ memory_is_stored(memory, storeCall.uri).result = ReturnsBool(FALSE)
    /\ storeCall.uri \notin DOMAIN storeBefore.memory.objects => memory = storeBefore.memory

RemovedFromSql ==
    /\ sqlite_get(sql, storeCall.uri).result = ReturnsNone
    /\ sqlite_is_stored(sql, storeCall.uri).result = ReturnsBool(FALSE)
    /\ storeCall.uri \notin DOMAIN storeBefore.sql => sql = storeBefore.sql

\* C24: in the memory partition and in the SQL partition, after put(x)
\* get(x.id) returns x, field for field, whatever was stored under that id
\* before, so that no field of an earlier document survives; after
\* remove(id) get(id) returns none and is_stored(id) is false, and removing
\* an id that was not stored leaves the partition as it was.
C24_PutGetRemove ==
    /\ storeCall.op = "put" => PutInMemory /\ PutInSql
    /\ storeCall.op = "remove" => RemovedFromMemory /\ RemovedFromSql

\* A second put under an id replaced, in both partitions, a document that
\* had a name by one that has none.
C24_Witness ==
    /\ storeCall.op = "put"
    /\ has_key(storeCall.resource, "id")
    /\ ~has_key(storeCall.resource, "name")
    /\ str_id(storeCall.resource) \in DOMAIN storeBefore.memory.objects
    /\ str_id(storeCall.resource) \in DOMAIN storeBefore.sql
    /\ has_key(storeBefore.memory.objects[str_id(storeCall.resource)], "name")
    /\ has_key(json_loads(storeBefore.sql[str_id(storeCall.resource)]), "name")
    /\ ~has_key(memory_get(memory, str_id(storeCall.resource)).result.doc, "name")
    /\ ~has_key(sqlite_get(sql, str_id(storeCall.resource)).result.doc, "name")

\* The stored documents the memory partition's query finds for the criteria
\* of the last call.
Matching == memory_query(storeBefore.memory, storeCall.criteria).result.docs

\* C25: whatever the partition holds and whatever the criteria, query_one
\* returns the document when exactly one stored document matches, returns
\* none when no document matches, and raises an error, returning no document,
\* when two or more match; the partition is as it was in every case.
C25_QueryOneCardinality ==
    storeCall.op = "query_one" =>
        /\ memory = storeBefore.memory
        /\ Cardinality(Matching) = 1 =>
               storeResult.memory.k = "object" /\ storeResult.memory.doc \in Matching
        /\ Cardinality(Matching) = 0 => storeResult.memory = ReturnsNone
        /\ Cardinality(Matching) >= 2 => storeResult.memory = Raises("ValueError")

\* query_one was called with criteria that two stored documents match.
C25_Witness ==
    /\ storeCall.op = "query_one"
    /\ Cardinality(Matching) >= 2
    /\ storeResult.memory.k = "raise"

\* The document's field k equals v or is a list containing v; a document
\* lacking the field does neither.
FieldMatches(doc, k, v) ==
    /\ has_key(doc, k)
    /\ \/ doc[k] = v
       \/ doc[k].k = "list" /\ v.k = "str" /\ IsIn(v.v[1], doc[k].v)

\* C26: a document matches criteria if and only if, for every criteria key k
\* not starting with '@' with value v, the document's field k equals v or is
\* a list containing v; a document lacking field k never matches, keys
\* starting with '@' are ignored, and query returns exactly the set of
\* matching stored documents.
C26_QueryMatching ==
    storeCall.op = "query" =>
        storeResult.memory
            = ReturnsList({doc \in {storeBefore.memory.objects[u] :
                                    u \in DOMAIN storeBefore.memory.objects} :
                           \A k \in {key \in Keys : has_key(storeCall.criteria, key)
                                                    /\ ~startswith_at(key)} :
                               FieldMatches(doc, k, storeCall.criteria[k])})

\* The memory partition is as it was before the call, and the call raised.
ErrorWithoutChange == storeResult.memory.k = "raise" /\ memory = storeBefore.memory

\* The document now stored under uri is doc with the updates of the last
\* call applied, but for doc's id, which is as it was.
Updated(uri, doc) ==
    /\ uri \in DOMAIN memory.objects
    /\ \A key \in Keys :
           memory.objects[uri][key]
               = IF key # "id" /\ has_key(storeCall.updates, key)
                 THEN storeCall.updates[key] ELSE doc[key]

\* Every document stored before the call is still stored under its id, and
\* every stored document is stored under its id.
IdsKept ==
    /\ \A u \in DOMAIN storeBefore.memory.objects :
           u \in DOMAIN memory.objects
           /\ memory.objects[u]["id"] = storeBefore.memory.objects[u]["id"]
    /\ \A u \in DOMAIN memory.objects : memory.objects[u]["id"] = Single(u)

\* C27: upsert with criteria lacking id is an error that changes nothing;
\* otherwise, if no document matches, a new document is created from the
\* criteria, the updates are applied, and the result is stored; update of an
\* unknown URI is an error that changes nothing; neither update nor upsert
\* ever changes a document's id, even when the updates contain an id field,
\* so after either call the document is still stored under its original id.
C27_UpsertAndUpdate ==
    /\ storeCall.op = "upsert" /\ ~has_key(storeCall.criteria, "id") => ErrorWithoutChange
    /\ storeCall.op = "upsert" /\ has_key(storeCall.criteria, "id") /\ Matching = {} =>
           /\ storeResult.memory = ReturnsNone
           /\ Updated(str_id(storeCall.criteria), storeCall.criteria)
    /\ storeCall.op = "upsert" /\ has_key(storeCall.criteria, "id") /\ Matching # {} =>
           \A doc \in Matching : Updated(str_id(doc), doc)
    /\ storeCall.op = "update" /\ storeCall.uri \notin DOMAIN storeBefore.memory.objects =>
           ErrorWithoutChange
    /\ storeCall.op = "update" /\ storeCall.uri \in DOMAIN storeBefore.memory.objects =>
           /\ storeResult.memory = ReturnsNone
           /\ Updated(storeCall.uri, storeBefore.memory.objects[storeCall.uri])
           /\ DOMAIN memory.objects = DOMAIN storeBefore.memory.objects
    /\ storeCall.op \in {"update", "upsert"} => IdsKept

\* A stored document was updated with updates that hold another id.
C27_Witness ==
    /\ storeCall.op = "update"
    /\ storeCall.uri \in DOMAIN storeBefore.memory.objects
    /\ has_key(storeCall.updates, "id")
    /\ str_id(storeCall.updates) # storeCall.uri
    /\ storeResult.memory = ReturnsNone
    /\ has_key(memory.objects[storeCall.uri], "type")
    /\ memory.objects[storeCall.uri]["type"] = storeCall.updates["type"]

\* The two partitions hold the same documents under the same URIs.
SameDocuments ==
    /\ DOMAIN sql = DOMAIN memory.objects
    /\ \A u \in DOMAIN sql : json_loads(sql[u]) = memory.objects[u]

\* The last call returned the same in both partitions: the same value, or an
\* error in both.
SameResult ==
    /\ storeResult.sql.k = storeResult.memory.k
    /\ storeResult.sql.doc = storeResult.memory.doc
    /\ storeResult.sql.docs = storeResult.memory.docs

\* C30: the SQL partition behaves like the memory partition for the whole
\* contract: after every sequence of put, remove, query_one, update and
\* upsert the calls on the SQL partition have returned the same results and
\* left the same stored documents as the same calls on the memory partition.
C30_SameContract ==
    /\ SameDocuments
    /\ storeCall.op \in {"put", "remove", "query_one", "update", "upsert"} => SameResult

-----------------------------------------------------------------------------
(* What the claims about the prefix store speak of                         *)

\* The partitions of the prefix store.
Partitions ==
    {PrivateStore, RemoteStore}
        \cup {TenantStore(prefix) : prefix \in DOMAIN prefixStore.tenant_stores}

\* The partition that owns a URI: the private partition if the URI starts
\* with urn:, the partition of the tenant whose scheme and host (and port)
\* it has, the remote partition otherwise.
OwningPartition(uri) ==
    IF urlparse(uri).scheme = "urn" THEN PrivateStore
    ELSE IF urlparse(uri).scheme \o "://" \o urlparse(uri).netloc
                \in DOMAIN prefixStore.tenant_stores
    THEN TenantStore(urlparse(uri).scheme \o "://" \o urlparse(uri).netloc)
    ELSE RemoteStore

HeldBy(ps, which) == StoreAt(ps, which).objects

\* The last call left every partition but the owner of its URI as it was.
OnlyOwnerTouched ==
    \A which \in Partitions \ {OwningPartition(storeCall.uri)} :
        StoreAt(prefixStore, which) = StoreAt(storeBefore.prefixStore, which)

\* The last call did to the owner of its URI, and returned, what the same
\* call on that partition alone does.
ActedOnOwner ==
    LET owner == OwningPartition(storeCall.uri)
        alone == CASE storeCall.op = "get" ->
                          memory_get(StoreAt(storeBefore.prefixStore, owner), storeCall.uri)
                   [] storeCall.op = "is_stored" ->
                          memory_is_stored(StoreAt(storeBefore.prefixStore, owner), storeCall.uri)
                   [] storeCall.op = "remove" ->
                          memory_remove(StoreAt(storeBefore.prefixStore, owner), storeCall.uri)
                   [] storeCall.op = "update" ->
                          memory_update(StoreAt(storeBefore.prefixStore, owner), storeCall.uri,
                                        storeCall.updates)
    IN  /\ StoreAt(prefixStore, owner) = alone.contents
        /\ storeResult.prefixStore = alone.result

\* C28: after any sequence of put and remove through the prefix-routed
\* store, a document whose id starts with urn: is held only by the private
\* partition, a document whose id has the scheme+host(+port) of a configured
\* tenant is held only by that tenant's partition, and every other document
\* is held only by the remote partition; get, is_stored, remove and update
\* for a URI act on that same partition, so no partition ever holds a
\* document owned by another.
C28_PrefixIsolation ==
    requested = <<>> /\ storeCall.op # "fetch.get" =>
        /\ \A which \in Partitions :
               \A u \in DOMAIN HeldBy(prefixStore, which) :
                   /\ HeldBy(prefixStore, which)[u]["id"] = Single(u)
                   /\ OwningPartition(u) = which
        /\ storeCall.op \in {"get", "is_stored", "remove", "update"} =>
               OnlyOwnerTouched /\ ActedOnOwner

\* The last get on the fetching store sent a GET to its transport.
GetIssued == requested = Append(storeBefore.requested, storeCall.uri)

NothingIssued == requested = storeBefore.requested

\* The URI is held by none of the partitions.
NotStoredLocally(ps, uri) ==
    \A which \in Partitions : uri \notin DOMAIN HeldBy(ps, which)

\* The remote partition holds the document the transport answered with,
\* under its id, or under an id of the store's if it came without one.
PersistedInRemote ==
    \E u \in DOMAIN HeldBy(prefixStore, RemoteStore) :
        /\ HeldBy(prefixStore, RemoteStore)[u]
               = [storeCall.transport.json EXCEPT !["id"] = Single(u)]
        /\ has_key(storeCall.transport.json, "id") => storeCall.transport.json["id"] = Single(u)
        /\ storeResult.prefixStore = ReturnsObject(HeldBy(prefixStore, RemoteStore)[u])

NoOtherPartitionChanged ==
    \A which \in Partitions \ {RemoteStore} :
        StoreAt(prefixStore, which) = StoreAt(storeBefore.prefixStore, which)

\* C29: get(uri) on the fetching store issues an outbound GET only when the
\* URI is not stored locally, its prefix is not a configured tenant, and it
\* uses http or https; on a successful fetch the returned document is
\* persisted into the remote partition, no tenant partition and not the
\* private partition is changed, and the document is returned; on any fetch
\* failure get returns none and no partition changes.
C29_FetchFallback ==
    storeCall.op = "fetch.get" =>
        /\ GetIssued \/ NothingIssued
        /\ GetIssued =>
               /\ NotStoredLocally(storeBefore.prefixStore, storeCall.uri)
               /\ OwningPartition(storeCall.uri).k # "tenant"
               /\ urlparse(storeCall.uri).scheme \in {"http", "https"}
        /\ GetIssued /\ storeCall.transport.k = "ok" =>
               PersistedInRemote /\ NoOtherPartitionChanged
        /\ GetIssued /\ storeCall.transport.k = "failed" =>
               storeResult.prefixStore = ReturnsNone /\ prefixStore = storeBefore.prefixStore

-----------------------------------------------------------------------------
(* The dispatch engine with a delivery service that may fail, each request *)
(* recorded with the writes and deliveries it made                         *)
(* (firm/services/activitypub.py; DeliveryService, firm/interfaces.py).    *)

\* One request, from its arrival to its response, served while the delivery
\* service hands activities over (down = FALSE) or raises on every call.
Serve(request, down) ==
    /\ nreq < MaxRequests
    /\ LET c == process_request([Ctx(store, delivered, uuid) EXCEPT !.down = down],
                                request)
       IN  /\ store' = c.store
           /\ delivered' = c.delivered
           /\ uuid' = c.uuid
           /\ resp' = Response(c)
           /\ effects' = c.effects
    /\ before' = Snapshot
    /\ req' = request
    /\ nreq' = nreq + 1
    /\ UNCHANGED <<authz, call, decision, chainVars, authnVars, storeVars, handlers>>

Delivering == \E r \in Requests : Serve(r, FALSE)

NotDelivering == \E r \in Requests : Serve(r, TRUE)

DeliveryNext == Delivering \/ NotDelivering

DeliverySpec == Init /\ [][DeliveryNext]_vars

\* The deliveries of the last request that raised.
FailedDeliveries ==
    {i \in 1..Len(effects) : effects[i].op = "deliver" /\ ~effects[i].ok}

-----------------------------------------------------------------------------
\* C31: when DeliveryService.deliver fails for an activity, the inbox or
\* outbox request it was made for still ends with its success response (200),
\* and the activity handed to the service is stored and listed in the box
\* owner's outbox.
C31_DeliveryFailureIsolated ==
    \A i \in FailedDeliveries :
        /\ Accepted
        /\ effects[i].id \in DOMAIN store
        /\ IsIn(effects[i].id, store[Owner.outbox].orderedItems)

-----------------------------------------------------------------------------
\* The types of the activities the engine stores.
ActivityTypes == {"Follow", "Like", "Create", "Undo", "Announce", "Accept"}

\* Every URI the owner's inbox or outbox lists is stored.
ListedAreStored(s) ==
    \A box \in {InboxUri, OutboxUri} :
        \A i \in 1..Len(s[box].orderedItems) : s[box].orderedItems[i] \in DOMAIN s

\* Every object a stored activity references by URI is stored.
ReferencedAreStored(s) ==
    \A id \in DOMAIN s :
        (s[id].type \in ActivityTypes /\ s[id].object.k = "uri")
            => s[id].object.id \in DOMAIN s

\* C32: within any inbox or outbox request the embedded object is written
\* before the activity that references it, the activity before the collection
\* that lists it, and delivery comes last: in the store as every write and
\* every delivery of the request leaves it, a failed delivery included, no
\* inbox or outbox lists an activity URI that is not stored and no stored
\* activity references by URI an object that is not stored.
C32_PersistenceOrder ==
    (InboxPost \/ OutboxPost) =>
        \A i \in 1..Len(effects) :
            /\ ListedAreStored(effects[i].store)
            /\ ReferencedAreStored(effects[i].store)

-----------------------------------------------------------------------------
(* Requests served at once (firm/services/activitypub.py over a store of   *)
(* firm/store/memory.py or firm/store/file.py).  Every call of the store   *)
(* is awaited, so a handler may be suspended at each of them and another   *)
(* handler may run in between: one action is one call of the store together *)
(* with the statements that follow it up to the next call.  The handlers   *)
(* serve inbox Follows of the owner by an authenticated follower, who is   *)
(* not the owner; the documents _process_post reads before the first write *)
(* (the box and its owner) are read with that write, for what it reads of  *)
(* them no handler changes.                                                *)
(*                                                                         *)
(* MemoryResourceStore.get hands out the stored dict itself, so what a     *)
(* handler does to a collection it has got is done to the stored one at    *)
(* once; FileResourceStore.get hands out what json.load made of the file,  *)
(* a copy that reaches the store with the put.                             *)

\* The handlers at work at once.
MaxHandlers == 2

HandlerIds == 1..MaxHandlers

StoreKinds == {"memory", "file"}

\* A handler: the store it works on, the call it is at (at, of), its request,
\* the collection it holds and whether it goes on to put it, the Accept it made.
Handler(kind, at, of, request, collection, writes, accept) ==
    [kind |-> kind, at |-> at, of |-> of, request |-> request,
     collection |-> collection, writes |-> writes, accept |-> accept]

Idle(kind) == Handler(kind, "idle", NONE, NoRequest, NoActivity, FALSE, NoActivity)

\* Follows of the owner by their own actor.
ConcurrentRequests ==
    {r \in InboxRequests :
        /\ has_value(r.activity, "type", "Follow")
        /\ r.auth = r.activity.actor
        /\ r.activity.object = UriRef(U2)
        /\ r.activity.actor # U2}

\* _put_collection_item from the collection it got to the put: the
\* collection as the handler leaves it, and whether the put is reached.
collection_with_item(collection, item_uri, prepend, allow_dups) ==
    LET key == items_key(collection)
        items == collection[key]
    IN  IF items # <<>>
        THEN IF ~allow_dups /\ IsIn(item_uri, items)
             THEN [put |-> FALSE, collection |-> collection]
             ELSE IF prepend
                  THEN [put |-> TRUE,
                        collection |-> [collection EXCEPT ![key] = <<item_uri>> \o items]]
                  ELSE [put |-> TRUE,
                        collection |-> [collection EXCEPT ![key] = Append(items, item_uri)]]
        ELSE [put |-> TRUE, collection |-> [collection EXCEPT ![key] = <<item_uri>>]]

\* The store with a document written to it.
Written(s, resource) ==
    [x \in DOMAIN s \cup {resource.id} |-> IF x = resource.id THEN resource ELSE s[x]]

\* The collection a handler works on, and the URI it adds.
CollectionUri(h) ==
    LET box_owner == store[U2]
    IN  CASE h.of = "inbox" -> box_owner.inbox
          [] h.of = "followers" -> box_owner.followers
          [] h.of = "outbox" -> box_owner.outbox

ItemUri(h) ==
    CASE h.of = "inbox" -> h.request.activity.id
      [] h.of = "followers" -> h.request.activity.actor
      [] h.of = "outbox" -> h.accept.id

\* _process_post and _process_inbox up to store.put(activity).
Receive(n) ==
    /\ handlers[n].at = "idle"
    /\ \E r \in ConcurrentRequests :
          /\ store' = Written(store, r.activity)
          /\ handlers' = [handlers EXCEPT ![n] =
                             [@ EXCEPT !.at = "get", !.of = "inbox", !.request = r]]
    /\ UNCHANGED <<delivered, uuid, before, req, resp, nreq, authz, call, decision,
                   chainVars, authnVars, storeVars, effects>>

\* _put_collection_item: the collection is dereferenced, and the item put
\* into what get returned.
Dereference(n) ==
    /\ handlers[n].at = "get"
    /\ LET h == handlers[n]
           got == collection_with_item(store[CollectionUri(h)], ItemUri(h), TRUE, FALSE)
       IN  /\ handlers' = [handlers EXCEPT ![n] =
                              [@ EXCEPT !.at = "put", !.collection = got.collection,
                                        !.writes = got.put]]
           /\ store' = IF h.kind = "memory" THEN Written(store, got.collection) ELSE store
    /\ UNCHANGED <<delivered, uuid, before, req, resp, nreq, authz, call, decision,
                   chainVars, authnVars, storeVars, effects>>

\* What follows a _put_collection_item in the handler of a Follow.
After(h) ==
    CASE h.of = "inbox" -> [h EXCEPT !.at = "get", !.of = "followers"]
      [] h.of = "followers" -> [h EXCEPT !.at = "accept", !.of = NONE]
      [] h.of = "outbox" -> [h EXCEPT !.at = "deliver", !.of = NONE]

\* _put_collection_item: store.put(collection), or the return that leaves
\* it out when the item was a member.  The memory store is handed the dict
\* it holds.
WriteBack(n) ==
    /\ handlers[n].at = "put"
    /\ LET h == handlers[n]
       IN  /\ store' = IF h.writes /\ h.kind = "file"
                       THEN Written(store, h.collection)
                       ELSE store
           /\ handlers' = [handlers EXCEPT ![n] = After(h)]
    /\ UNCHANGED <<delivered, uuid, before, req, resp, nreq, authz, call, decision,
                   chainVars, authnVars, storeVars, effects>>

\* _process_inbox_follow makes the Accept and _process_outbox_internal
\* stores it.
StoreAccept(n) ==
    /\ handlers[n].at = "accept"
    /\ LET h == handlers[n]
           box_owner == store[U2]
           accept ==
               [Doc(box_owner.id \o "/accept/" \o Uuid4(uuid + 1), "Accept") EXCEPT
                   !.context = "https://www.w3.org/ns/activitystreams",
                   !.to = h.request.activity.actor,
                   !.actor = box_owner.id,
                   !.object = Embed(h.request.activity)]
       IN  /\ store' = Written(store, accept)
           /\ uuid' = uuid + 1
           /\ handlers' = [handlers EXCEPT ![n] =
                              [@ EXCEPT !.at = "get", !.of = "outbox", !.accept = accept]]
    /\ UNCHANGED <<delivered, before, req, resp, nreq, authz, call, decision,
                   chainVars, authnVars, storeVars, effects>>

\* _process_outbox_internal hands the Accept to the delivery service, and
\* the handler returns OK.
DeliverAccept(n) ==
    /\ handlers[n].at = "deliver"
    /\ delivered' = Append(delivered, handlers[n].accept)
    /\ handlers' = [handlers EXCEPT ![n] = [@ EXCEPT !.at = "done"]]
    /\ UNCHANGED <<store, uuid, before, req, resp, nreq, authz, call, decision,
                   chainVars, authnVars, storeVars, effects>>

ConcurrentInit ==
    /\ NoDispatch
    /\ NoAuthn
    /\ NoStores
    /\ effects = <<>>
    /\ handlers \in {[n \in HandlerIds |-> Idle(kind)] : kind \in StoreKinds}

ConcurrentNext ==
    \E n \in HandlerIds :
        \/ Receive(n)
        \/ Dereference(n)
        \/ WriteBack(n)
        \/ StoreAccept(n)
        \/ DeliverAccept(n)

ConcurrentSpec == ConcurrentInit /\ [][ConcurrentNext]_vars

\* Every handler has returned.
AllDone == \A n \in HandlerIds : handlers[n].at = "done"

\* What a handler that served its Follow added is where it added it.
NothingLost(h) ==
    /\ IsIn(h.request.activity.id, store[InboxUri].orderedItems)
    /\ IsIn(h.request.activity.actor, store[FollowersUri].items)
    /\ IsIn(h.accept.id, store[OutboxUri].orderedItems)

\* C33: when two requests that each add a different URI to the same
\* collection (two Follows of one actor by different followers, two
\* activities posted to one inbox) are interleaved at the granularity of the
\* store's get and put calls, then once both have completed both URIs are
\* members of the collection: of the inbox, of the followers, and of the
\* outbox for the Accepts.
C33_NoAppendLost ==
    AllDone => \A n \in HandlerIds : NothingLost(handlers[n])

-----------------------------------------------------------------------------
\* The members of a collection before and after the last request.
MembersBefore(uri) == before.store[uri][items_key(before.store[uri])]

MembersAfter(uri) == store[uri][items_key(store[uri])]

\* The last request added the URI to the collection, which did not hold it.
AddedTo(uri, item_uri) ==
    /\ uri \in DOMAIN before.store
    /\ ~IsIn(item_uri, MembersBefore(uri))
    /\ IsIn(item_uri, MembersAfter(uri))

\* C34: a URI added to a collection of type Collection (followers, likes) is
\* appended to the end of items, so that items lists the members in the order
\* they were added; a URI added to an OrderedCollection (inbox, outbox) is
\* inserted at the front of orderedItems.
C34_OrderByType ==
    \A uri \in DOMAIN before.store :
        \A item_uri \in {Posted.id, Posted.actor} :
            AddedTo(uri, item_uri) =>
                IF has_value(store[uri], "type", "OrderedCollection")
                THEN MembersAfter(uri) = <<item_uri>> \o MembersBefore(uri)
                ELSE MembersAfter(uri) = Append(MembersBefore(uri), item_uri)

-----------------------------------------------------------------------------
\* The activity handler rejected the last inbox POST: 403 for an actor who is
\* not the principal, 400 for a Follow of another object, a self-follow or an
\* unknown liked object, 501 for a type or an Undo it does not support.
RejectedByHandler == InboxPost /\ resp.status \in {400, 403, 501}

\* C35: an inbox POST that the activity handler rejects leaves the store as
\* it was before the request: the rejected activity is neither stored nor
\* listed in the inbox.
C35_RejectedLeavesNoTrace ==
    RejectedByHandler =>
        /\ store = before.store
        /\ ~IsIn(Posted.id, store[Owner.inbox].orderedItems)

-----------------------------------------------------------------------------
\* The followers and likes collections there were before the last request.
MemberCollections ==
    {uri \in DOMAIN before.store : has_value(before.store[uri], "type", "Collection")}

\* The members the last request took out of a collection.
RemovedFrom(uri) ==
    {MembersBefore(uri)[i] : i \in 1..Len(MembersBefore(uri))}
        \ {MembersAfter(uri)[i] : i \in 1..Len(MembersAfter(uri))}

InboxUndo == InboxPost /\ has_value(req.activity, "type", "Undo")

\* C36: an inbox Undo of a Follow removes from a followers collection only
\* the URI of the authenticated principal, and only from the followers of the
\* owner of the inbox it was posted to; an Undo whose actor is not the
\* authenticated principal, or whose embedded Follow names another actor than
\* the box owner, changes no followers collection; likewise for the Undo of a
\* Like and the likes collections.
C36_UndoScope ==
    InboxUndo =>
        \A uri \in MemberCollections :
            /\ RemovedFrom(uri) \subseteq {req.auth}
            /\ req.activity.actor # req.auth => Unchanged(uri)
            /\ (resource_get(req.activity, "type") = "Follow"
                /\ resource_get(req.activity, "object") # Owner.id) => Unchanged(uri)
            /\ (resource_get(req.activity, "type") = "Follow" /\ ~Unchanged(uri))
                   => uri = Owner.followers

-----------------------------------------------------------------------------
\* The last request was an accepted inbox Follow, or an accepted inbox Undo
\* of a Follow, sent by the principal u.
FollowSentBy(u) ==
    InboxPost /\ Accepted /\ req.auth = u /\ has_value(req.activity, "type", "Follow")

UndoFollowSentBy(u) ==
    InboxUndo /\ Accepted /\ req.auth = u /\ resource_get(req.activity, "type") = "Follow"

Follows(u) == IsIn(u, store[FollowersUri].items)

NoDuplicates(seq) == \A i, j \in 1..Len(seq) : seq[i] = seq[j] => i = j

\* C37: after any sequence of accepted inbox Follow and Undo-Follow requests
\* addressed to the owner, starting from followers without duplicates, the
\* followers hold no URI twice and hold a URI u exactly when the most recent
\* accepted request sent by u was a Follow: each request leaves u a follower
\* if it is an accepted Follow sent by u, no follower if it is an accepted
\* Undo-Follow sent by u, and as it was otherwise.
C37_FollowersStateMachine ==
    [][/\ NoDuplicates(store[FollowersUri].items)'
       /\ \A u \in {U1, U2, U3} :
             Follows(u)' = IF FollowSentBy(u)' THEN TRUE
                           ELSE IF UndoFollowSentBy(u)' THEN FALSE
                           ELSE Follows(u)]_vars

-----------------------------------------------------------------------------
(* Authentication: bearer token (firm/auth/bearer_token.py) *)

\* The credentials of an Authorization header that are a token.
Token(text) == [k |-> "token", segments |-> <<text>>]

\* The credentials as the string they are in the header: the token, or
\* base64 text that is the token of nobody.
credentials_text(credentials) ==
    IF credentials.k = "token" THEN credentials.segments[1] ELSE "base64"

\* store.query_one({"@prefix": "urn:", "type": "firm:Credentials",
\* "firm:token": credentials}) on a store that matches with
\* ResourceStoreBase.is_match, which passes over "@prefix".
token_query_one(s, credentials) ==
    LET matches == {id \in DOMAIN s : /\ s[id].type = "firm:Credentials"
                                       /\ s[id].token = credentials}
    IN  IF matches = {} THEN [k |-> "none", doc |-> AuthDocument(NONE)]
        ELSE IF Cardinality(matches) = 1
        THEN [k |-> "one", doc |-> s[CHOOSE id \in matches : TRUE]]
        ELSE [k |-> "raise", doc |-> AuthDocument(NONE)]

\* BearerTokenAuthenticator.authenticate
bearer_authenticate(s, request) ==
    LET auth == request.authorization
    IN  IF auth.k = "none" THEN NoIdentity
        ELSE IF auth.tokens # 2 THEN AuthnRaised("ValueError")
        ELSE IF http_lower(auth.scheme) # "bearer" THEN NoIdentity
        ELSE LET credential_resource ==
                     token_query_one(s, credentials_text(auth.credentials))
             IN  IF credential_resource.k = "raise" THEN AuthnRaised("ValueError")
                 ELSE IF credential_resource.k = "none" THEN NoIdentity
                 ELSE IF credential_resource.doc.attributedTo = NONE
                 THEN AuthnRaised("KeyError")
                 ELSE IF credential_resource.doc.attributedTo \in DOMAIN s
                 THEN Identity(s[credential_resource.doc.attributedTo].id)
                 ELSE NoIdentity

BearerRequests ==
    {[HttpRequest("GET", "server.test", "/", "", <<>>, "") EXCEPT !.authorization = a] :
        a \in {NoAuthorization,
               Authorization(1, "Bearer", [k |-> "none", segments |-> <<>>]),
               Authorization(2, "Basic", Base64Of(BasicActorSegments \o <<"letmein">>))}
              \cup {Authorization(tokens, scheme, Token(text)) :
                       tokens \in {2, 3}, scheme \in {"Bearer", "bearer"},
                       text \in {"ABCD", "XYWZ"}}}

TokenDocument(id, attributedTo, token) ==
    [AuthDocument(id) EXCEPT
        !.type = "firm:Credentials", !.attributedTo = attributedTo, !.token = token]

\* The actor with the credentials that hold its token, as test_auth.py has
\* them; the token on the actor itself and no credentials; the credentials
\* of an actor that is not stored; two credentials with one token;
\* credentials attributed to nobody; credentials of a password; nothing.
TokenStores ==
    {AuthStoreOf({AuthDocument(BasicActor),
                  TokenDocument("urn:uuid:1234", BasicActor, "ABCD")}),
     AuthStoreOf({[AuthDocument(BasicActor) EXCEPT !.token = "ABCD"]}),
     AuthStoreOf({TokenDocument("urn:uuid:1234", BasicActor, "ABCD")}),
     AuthStoreOf({AuthDocument(BasicActor),
                  TokenDocument("urn:uuid:1234", BasicActor, "ABCD"),
                  TokenDocument("urn:uuid:5678", BasicActor, "ABCD")}),
     AuthStoreOf({AuthDocument(BasicActor), TokenDocument("urn:uuid:1234", NONE, "ABCD")}),
     AuthStoreOf({AuthDocument(BasicActor),
                  CredentialsDocument("urn:uuid:1234", BasicActor, hash_password("letmein"))}),
     AuthStoreOf({})}

\* Bearer token: a request is authenticated against a store.
BearerInit ==
    /\ httpRequest \in BearerRequests
    /\ authStore \in TokenStores
    /\ identity = NotAuthenticated
    /\ signer = NoSigner
    /\ signedRequest = HttpRequest(NONE, NONE, NONE, NONE, <<>>, NONE)
    /\ changes = 0
    /\ NoDispatch
    /\ NoStores
    /\ NoSteps

BearerAuthenticate ==
    /\ identity = NotAuthenticated
    /\ identity' = bearer_authenticate(authStore, httpRequest)
    /\ UNCHANGED <<httpRequest, authStore, signer, signedRequest, changes, dispatchVars,
                   storeVars, stepVars>>

BearerNext == BearerAuthenticate

BearerSpec == BearerInit /\ [][BearerNext]_vars

\* C38: every identity an authenticator returns carries an actor document
\* that exists in the store; when the key owner or the credential's actor
\* URI is not stored, the outcome is no identity or an error, never an
\* identity without an actor.
C38_IdentityHasStoredActor ==
    identity.k = "identity" =>
        /\ identity.uri \in DOMAIN authStore
        /\ authStore[identity.uri].id = identity.uri

-----------------------------------------------------------------------------
\* The last call put a resource without id through the prefix-routed store.
PutWithoutId == storeCall.op = "put" /\ ~has_key(storeCall.resource, "id")

\* C39: putting a resource that has no id through the prefix-routed store
\* raises ValueError and leaves every partition unchanged: no partition gains
\* a document, and the remote partition never holds a document whose id
\* starts with urn:.
C39_PutWithoutIdRefused ==
    /\ PutWithoutId =>
           /\ storeResult.prefixStore = Raises("ValueError")
           /\ \A which \in Partitions :
                  StoreAt(prefixStore, which) = StoreAt(storeBefore.prefixStore, which)
    /\ requested = <<>> =>
           \A u \in DOMAIN HeldBy(prefixStore, RemoteStore) : urlparse(u).scheme # "urn"

-----------------------------------------------------------------------------
(* The prefix-routed store configured with a tenant and a wildcard tenant  *)
(* (firm/store/prefixstore.py), given the calls of PrefixSpec.             *)

WildcardPrefixes == {"https://server.test", "*"}

WildcardInit ==
    /\ prefixStore = PrefixAwareResourceStore([prefix \in WildcardPrefixes |-> EmptyMemory],
                                              EmptyMemory, EmptyMemory)
    /\ requested = <<>>
    /\ storeCall = NoStoreCall
    /\ storeResult = Results(ReturnsNone, ReturnsNone, ReturnsNone)
    /\ storeBefore = [memory |-> EmptyMemory, sql |-> <<>>, prefixStore |-> NoPrefixStore,
                      requested |-> <<>>]
    /\ ncalls = 0
    /\ memory = EmptyMemory
    /\ sql = <<>>
    /\ NoDispatch
    /\ NoAuthn
    /\ NoSteps

WildcardSpec == WildcardInit /\ [][PrefixNext]_vars

\* The last call put a resource whose id is not private and has the scheme
\* and host (and port) of no tenant configured by name, while a wildcard
\* tenant is configured.
PutForWildcard ==
    /\ storeCall.op = "put"
    /\ has_key(storeCall.resource, "id")
    /\ "*" \in DOMAIN prefixStore.tenant_stores
    /\ ~is_private(get_url_prefix(str_id(storeCall.resource)))
    /\ get_url_prefix(str_id(storeCall.resource)) \notin DOMAIN prefixStore.tenant_stores

\* C40: when a tenant partition is configured under the wildcard key "*", a
\* non-private URI whose scheme and host (and port) match no tenant
\* configured by name is routed to the wildcard tenant's partition and not
\* to the remote partition.
C40_WildcardRouting ==
    PutForWildcard =>
        /\ str_id(storeCall.resource) \in DOMAIN HeldBy(prefixStore, TenantStore("*"))
        /\ StoreAt(prefixStore, RemoteStore) = StoreAt(storeBefore.prefixStore, RemoteStore)

=============================================================================
